---- MODULE Spec2Model ----
(***************************************************************************)
(* A model of GifCompare: the frame store (src/src/gif_handler.py,         *)
(* GifHandler), the overlay compositing engine and the grid overlay        *)
(* (src/src/overlay_engine.py, OverlayEngine and GridOverlay), the metrics *)
(* (src/src/metrics.py) and the batch handlers of the main window          *)
(* (src/src/app.py).                                                       *)
(*                                                                         *)
(* The specifications of the module:                                       *)
(*   Spec              one GifHandler driven by load / get_frame /         *)
(*                     delete_frame / insert_frame / add_frame calls;      *)
(*   SpecOverlay       one OverlayEngine driven by set_mode /              *)
(*                     toggle_flicker / composite calls;                   *)
(*   SpecCheckerboard  the CHECKERBOARD compositing as a function of the   *)
(*                     cell size, the line thickness and two frames;       *)
(*   SpecMetrics       calculate_frame_metrics, calculate_sequence_metrics *)
(*                     and average_sequence_metrics as functions;          *)
(*   SpecApp           the main window's metrics run, multi-file averaging *)
(*                     run and overlay export, one loop iteration a step;  *)
(*   SpecView          the main window's display: file loads, frame        *)
(*                     navigation, frame deletion and insertion, mode      *)
(*                     selection and the flicker timer;                    *)
(*   SpecPanel         SpecView for a user who keeps clicking every mode   *)
(*                     button;                                             *)
(*   SpecExport        the overlay export from the states a session can    *)
(*                     leave the two stores and the engine in;             *)
(*   SpecGrid          one GridOverlay driven by its setters and apply.    *)
(* Each specification keeps the variables of the components it does not    *)
(* drive at their constructor values.                                      *)
(***************************************************************************)
EXTENDS Integers, Sequences, FiniteSets, TLC

VARIABLES
    frames,         \* GifHandler.frames    : list of decoded frames
    durations,      \* GifHandler.durations : list of per-frame durations (ms)
    call,           \* the last GifHandler call: its name and arguments
    ret,            \* what that call returned
    loaded_ok,      \* history: some load() on this store has returned True
    mode,           \* OverlayEngine.mode
    flicker_state,  \* OverlayEngine.flicker_state
    ecall,          \* the last OverlayEngine call: its name and arguments
    result,         \* what the last composite() produced (an image or a raise)
    memo,           \* history: one earlier composite() call, its inputs and output
    cb,             \* one _composite_checkerboard application: its inputs and output
    lpips_model,    \* MetricsTab._calculator._lpips_model: "none" or "loaded"
    mcall,          \* the last metrics call: its name, environment and arguments
    mret,           \* what that call returned
    gt_handler,     \* GifCompareApp.gt_handler.frames, by shape
    pred_handler,   \* GifCompareApp.pred_handler.frames, by shape
    loads,          \* history: how often this process has built the LPIPS network
    batch,          \* the batch operation under way, or the outcome of the last one
    shown,          \* MetricsTab._sequence_metrics and MetricsTab._frame_metrics
    written,        \* the overlay GIF file at the export path, once one is written
    gt_durations,   \* GifCompareApp.gt_handler.durations
    pred_durations, \* GifCompareApp.pred_handler.durations
    flicker_timer,  \* GifCompareApp._flicker_timer is running
    ui,             \* _current_frame and the widgets: playback, slider, strips, mode panel, viewport
    grid,           \* GridOverlay: enabled, size, color, opacity, thickness
    gcall,          \* the last GridOverlay call: its name and argument
    gret            \* what that call returned

storeVars   == <<frames, durations, call, ret, loaded_ok>>
overlayVars == <<mode, flicker_state, ecall, result, memo>>
checkerVars == <<cb>>
metricsVars == <<lpips_model, mcall, mret>>
viewVars    == <<gt_durations, pred_durations, flicker_timer, ui>>
appVars     == <<gt_handler, pred_handler, loads, batch, shown, written, viewVars>>
gridVars    == <<grid, gcall, gret>>
\* the variables of the components other than the store and the engine
laterVars   == <<checkerVars, metricsVars, appVars, gridVars>>
vars        == <<frames, durations, call, ret, loaded_ok,
                 mode, flicker_state, ecall, result, memo, cb,
                 lpips_model, mcall, mret,
                 gt_handler, pred_handler, loads, batch, shown, written,
                 gt_durations, pred_durations, flicker_timer, ui,
                 grid, gcall, gret>>

(***************************************************************************)
(* Bounds of the model.                                                    *)
(***************************************************************************)
\* longest frame list the store is driven to
MaxFrames == 3
\* most frames one decoded file holds
MaxDecode == 2
\* get_frame / delete_frame / insert_frame indices range over -MaxIndex..MaxIndex,
\* one past the longest list on either side
MaxIndex == MaxFrames + 1
\* largest checkerboard cell size (OverlayEngine.checker_size) tried
MaxCell == 6
\* largest height and width of the frames the checkerboard is applied to
MaxSide == 12
\* longest frame list given to calculate_sequence_metrics
MaxSeq == 3
\* longest list given to average_sequence_metrics
MaxAvg == 2
\* most paths one multi-file averaging run is given
MaxPaths == 2
\* longest frame list the ADD button of a frame strip is used up to
MaxStrip == 2
\* most LPIPS network loads followed in one process
MaxLoads == 2

(***************************************************************************)
(* Frames: numpy arrays of 8-bit channels.  nd is ndarray.ndim (2 for a    *)
(* grayscale H x W array, 3 for H x W x C); c is shape[-1] of a 3-D array  *)
(* (1 for a 2-D one, whose pixels are 1-tuples); px[y][x] is the tuple of  *)
(* channel values of the pixel in row y, column x (1-based).               *)
(***************************************************************************)
Solid(h, w, nd, pixel) ==
    [h |-> h, w |-> w, nd |-> nd, c |-> Len(pixel),
     px |-> [y \in 1..h |-> [x \in 1..w |-> pixel]]]

\* filler for "no frame here" in records that always carry a frame field
NoFrame == [h |-> 0, w |-> 0, nd |-> 0, c |-> 0, px |-> <<>>]

\* Return values: Python's None, a bool, a frame, or an exception leaving the call
RetNone == [kind |-> "none", b |-> FALSE, f |-> NoFrame]

RetBool(b) == [kind |-> "bool", b |-> b, f |-> NoFrame]

RetFrame(f) == [kind |-> "frame", b |-> FALSE, f |-> f]

RetRaise == [kind |-> "raise", b |-> FALSE, f |-> NoFrame]

(***************************************************************************)
(* Python list primitives, with the index rules of the language.           *)
(***************************************************************************)
\* list[i]: a negative index counts from the end; out of range raises IndexError
PyGetItem(list, i) ==
    IF 0 <= i /\ i < Len(list) THEN RetFrame(list[i + 1])
    ELSE IF i < 0 /\ -Len(list) <= i THEN RetFrame(list[Len(list) + i + 1])
    ELSE RetRaise

\* del list[i] for an index the caller has checked to be in 0..len-1
PyDelItem(list, i) ==
    SubSeq(list, 1, i) \o SubSeq(list, i + 2, Len(list))

\* list.insert(i, x) for an index the caller has checked to be in 0..len
PyInsert(list, i, x) ==
    SubSeq(list, 1, i) \o <<x>> \o SubSeq(list, i + 1, Len(list))

(***************************************************************************)
(* The frames the store is driven with.  load() converts every decoded     *)
(* frame to RGBA, and the frames handed to insert_frame / add_frame come   *)
(* from the same RGBA conversion (app.py, _add_frame).                     *)
(***************************************************************************)
FrameRed == Solid(1, 1, 3, <<255, 0, 0, 255>>)

FrameBlue == Solid(1, 1, 3, <<0, 0, 255, 255>>)

StoreFrames == {FrameRed, FrameBlue}

\* the "duration" entry of a decoded frame's info dictionary: absent, or the
\* delay the file states (a GIF frame may state a delay of 0)
DecoderInfos == {[has |-> FALSE, value |-> 0], [has |-> TRUE, value |-> 0]}

\* dict.get(key, default)
InfoGet(info, default) == IF info.has THEN info.value ELSE default

\* durations a caller passes to insert_frame / add_frame (any Python int)
CallerDurations == {0, 100}

\* default duration of insert_frame / add_frame / get_duration, and of load
DefaultDuration == 100

(***************************************************************************)
(* An animated-image file as the decoder sees it.                          *)
(*   opens    Image.open(path) succeeds                                    *)
(*   images   the frames of the file, each with its info                   *)
(*   fail     "convert": convert("RGBA") of frame fail_at raises           *)
(*            (truncated or corrupt frame data);                           *)
(*            "seek": seek() past frame fail_at raises an error other than *)
(*            EOFError; "none": the file decodes to its end                *)
(* seek() past the last frame raises EOFError, which ends the loop.  A     *)
(* failing file is listed up to the frame at which the failure occurs: the *)
(* decoder never reads past it.                                            *)
(***************************************************************************)
ImageEntries == [frame : StoreFrames, info : DecoderInfos]

ImageLists == UNION {[1..n -> ImageEntries] : n \in 1..MaxDecode}

BadFile == [opens |-> FALSE, images |-> <<>>, fail |-> "none", fail_at |-> 0]

Files ==
    {BadFile} \cup
    {[opens |-> TRUE, images |-> im, fail |-> "none", fail_at |-> 0] : im \in ImageLists} \cup
    {[opens |-> TRUE, images |-> im, fail |-> k, fail_at |-> Len(im)] :
        im \in ImageLists, k \in {"convert", "seek"}}

(***************************************************************************)
(* GifHandler operations, as functions of the two lists.  Each returns the *)
(* lists after the call and the call's return value.                       *)
(***************************************************************************)
RECURSIVE DecodeLoop(_, _, _, _)
\* the `while True` loop of load(): iteration i decodes frame i of the file
DecodeLoop(file, i, fs, ds) ==
    IF file.fail = "convert" /\ file.fail_at = i
    THEN [frames |-> fs, durations |-> ds, raised |-> TRUE]
    ELSE LET fs2 == Append(fs, file.images[i].frame)
             ds2 == Append(ds, InfoGet(file.images[i].info, DefaultDuration))
         IN  IF file.fail = "seek" /\ file.fail_at = i
             THEN [frames |-> fs2, durations |-> ds2, raised |-> TRUE]
             ELSE IF i = Len(file.images)
                  THEN [frames |-> fs2, durations |-> ds2, raised |-> FALSE]
                  ELSE DecodeLoop(file, i + 1, fs2, ds2)

load(file) ==
    IF ~file.opens
    THEN [frames |-> <<>>, durations |-> <<>>, ret |-> FALSE]
    ELSE LET r == DecodeLoop(file, 1, <<>>, <<>>)
         IN  [frames |-> r.frames, durations |-> r.durations,
              ret |-> IF r.raised THEN FALSE ELSE Len(r.frames) > 0]

get_frame_unguarded_below(fs, index) ==
    IF index < Len(fs) THEN PyGetItem(fs, index) ELSE RetNone

get_frame(fs, index) ==
    IF 0 <= index /\ index < Len(fs) THEN PyGetItem(fs, index) ELSE RetNone

get_frame_count(fs) == Len(fs)

delete_frame_to_empty(fs, ds, index) ==
    IF 0 <= index /\ index < Len(fs)
    THEN [frames |-> PyDelItem(fs, index), durations |-> PyDelItem(ds, index), ret |-> TRUE]
    ELSE [frames |-> fs, durations |-> ds, ret |-> FALSE]

delete_frame_first_duration(fs, ds, index) ==
    IF 0 <= index /\ index < Len(fs) /\ Len(fs) > 1
    THEN [frames |-> PyDelItem(fs, index), durations |-> PyDelItem(ds, 0), ret |-> TRUE]
    ELSE [frames |-> fs, durations |-> ds, ret |-> FALSE]

delete_frame(fs, ds, index) ==
    IF 0 <= index /\ index < Len(fs) /\ Len(fs) > 1
    THEN [frames |-> PyDelItem(fs, index), durations |-> PyDelItem(ds, index), ret |-> TRUE]
    ELSE [frames |-> fs, durations |-> ds, ret |-> FALSE]

insert_frame_not_at_end(fs, ds, index, frame, duration) ==
    IF 0 <= index /\ index < Len(fs)
    THEN [frames |-> PyInsert(fs, index, frame),
          durations |-> PyInsert(ds, index, duration), ret |-> TRUE]
    ELSE [frames |-> fs, durations |-> ds, ret |-> FALSE]

insert_frame(fs, ds, index, frame, duration) ==
    IF 0 <= index /\ index <= Len(fs)
    THEN [frames |-> PyInsert(fs, index, frame),
          durations |-> PyInsert(ds, index, duration), ret |-> TRUE]
    ELSE [frames |-> fs, durations |-> ds, ret |-> FALSE]

add_frame_without_duration(fs, ds, frame, duration) ==
    [frames |-> Append(fs, frame), durations |-> ds]

add_frame(fs, ds, frame, duration) ==
    [frames |-> Append(fs, frame), durations |-> Append(ds, duration)]

(***************************************************************************)
(* OverlayEngine.  The engine's configuration is what __init__ sets; no    *)
(* code of the repository assigns it afterwards.                           *)
(***************************************************************************)
OverlayModes ==
    {"NORMAL", "DUAL_COLOR", "DIFFERENCE", "SSIM_MAP", "BLEND", "FLICKER",
     "CHECKERBOARD", "SIDE_BY_SIDE"}

checker_size == 32

grid_thickness == 1

gt_color == <<0, 255, 0>>

pred_color == <<255, 0, 255>>

\* smallest side skimage's structural_similarity accepts (its default window);
\* below it the call raises ValueError
SsimWinSize == 7

Min(a, b) == IF a < b THEN a ELSE b

Max(a, b) == IF a < b THEN b ELSE a

Abs(a) == IF a < 0 THEN -a ELSE a

\* ndarray.shape
Shape(frame) ==
    IF frame.nd = 2 THEN <<frame.h, frame.w>> ELSE <<frame.h, frame.w, frame.c>>

\* a frame of the same height and width with c channels, pixel by pixel
Image(h, w, c, pixels) == [h |-> h, w |-> w, nd |-> 3, c |-> c, px |-> pixels]

ensure_rgba(frame) ==
    IF frame.nd = 2
    THEN Image(frame.h, frame.w, 4,
               [y \in 1..frame.h |-> [x \in 1..frame.w |->
                   LET v == frame.px[y][x][1] IN <<v, v, v, 255>>]])
    ELSE IF frame.c = 3
    THEN Image(frame.h, frame.w, 4,
               [y \in 1..frame.h |-> [x \in 1..frame.w |->
                   LET p == frame.px[y][x] IN <<p[1], p[2], p[3], 255>>]])
    ELSE frame

\* every pixel equal and, when there is an alpha channel, fully opaque
IsUniformOpaque(frame) ==
    /\ \A y \in 1..frame.h, x \in 1..frame.w : frame.px[y][x] = frame.px[1][1]
    /\ frame.c = 4 => frame.px[1][1][4] = 255

\* Image.fromarray(pred).resize((w, h), LANCZOS) and np.array of it.
\* fromarray has no image mode for an H x W x 1 array (TypeError).  An image
\* already of the target size is copied.  Resampling is modelled for uniform
\* opaque images, which resample to the uniform image of the new size.
pil_resize(pred, w, h) ==
    IF pred.c \notin {2, 3, 4} THEN RetRaise
    ELSE IF pred.w = w /\ pred.h = h THEN RetFrame(pred)
    ELSE RetFrame(Image(h, w, pred.c, [y \in 1..h |-> [x \in 1..w |-> pred.px[1][1]]]))

\* the pairs of frames whose size matching the model can compute
Resamplable(gt_frame, pred_frame) ==
    \/ (gt_frame.h = pred_frame.h /\ gt_frame.w = pred_frame.w)
    \/ IsUniformOpaque(ensure_rgba(pred_frame))

\* two trailing axes broadcast when they are equal or one of them is 1
Broadcasts(c1, c2) == c1 = c2 \/ c1 = 1 \/ c2 = 1

\* channel k (0-based) of a pixel read with a[:, :, :3]-style broadcasting
Chan(p, k) == IF Len(p) = 1 THEN p[1] ELSE p[k + 1]

composite_normal_gt(gt, pred) == RetFrame(gt)

composite_normal(gt, pred) == RetFrame(pred)

\* 1000 * (0.299 R + 0.587 G + 0.114 B)
Lum1000(p) == 299 * p[1] + 587 * p[2] + 114 * p[3]

\* one `result[:, :, i] = np.clip(result[:, :, i] + gray * c / 255, 0, 255)`
\* step: the sum is clipped and then truncated into the uint8 array
Tint(old, lum1000, c) == Min(255, (old * 255000 + lum1000 * c) \div 255000)

composite_dual_color(gt, pred) ==
    IF gt.c < 4 \/ pred.c < 3 THEN RetRaise
    ELSE RetFrame(Image(gt.h, gt.w, gt.c,
            [y \in 1..gt.h |-> [x \in 1..gt.w |->
                LET g == Lum1000(gt.px[y][x])
                    p == Lum1000(pred.px[y][x])
                IN  [k \in 1..gt.c |->
                        IF k <= 3 THEN Tint(Tint(0, g, gt_color[k]), p, pred_color[k])
                        ELSE IF k = 4 THEN 255 ELSE 0]]]))

\* sum over the colour channels of |gt - pred| at one pixel (3 * diff_gray
\* for three channels; the channel count cancels in diff_norm)
DiffSum(gt, pred, y, x) ==
    LET n == Max(Min(3, gt.c), Min(3, pred.c))
    IN  LET F[k \in 0..n] ==
                IF k = 0 THEN 0
                ELSE F[k - 1] + Abs(Chan(gt.px[y][x], k - 1) - Chan(pred.px[y][x], k - 1))
        IN  F[n]

RECURSIVE MaxOver(_, _, _, _)
\* the largest DiffSum over the pixels from (y, x) on, in row-major order
MaxOver(gt, pred, y, x) ==
    IF y > gt.h THEN 0
    ELSE IF x > gt.w THEN MaxOver(gt, pred, y + 1, 1)
    ELSE Max(DiffSum(gt, pred, y, x), MaxOver(gt, pred, y, x + 1))

\* the heatmap of diff_norm = s / m: red 4v, green 1 - 2|v - 0.5|, blue 1 - v,
\* each times 255, clipped and truncated
HeatGreenUnfolded(s, m) == Max(0, Min(255, (255 * (m - (2 * s - m))) \div m))

HeatRed(s, m) == Min(255, (4 * 255 * s) \div m)

HeatGreen(s, m) == Max(0, Min(255, (255 * (m - Abs(2 * s - m))) \div m))

HeatBlue(s, m) == Max(0, Min(255, (255 * (m - s)) \div m))

composite_difference(gt, pred) ==
    IF ~Broadcasts(Min(3, gt.c), Min(3, pred.c)) \/ gt.c < 4 THEN RetRaise
    ELSE LET top == MaxOver(gt, pred, 1, 1)
             max_diff == IF top > 0 THEN top ELSE 1
         IN  RetFrame(Image(gt.h, gt.w, gt.c,
                [y \in 1..gt.h |-> [x \in 1..gt.w |->
                    LET s == DiffSum(gt, pred, y, x)
                    IN  [k \in 1..gt.c |->
                            IF k = 1 THEN HeatRed(s, max_diff)
                            ELSE IF k = 2 THEN HeatGreen(s, max_diff)
                            ELSE IF k = 3 THEN HeatBlue(s, max_diff)
                            ELSE IF k = 4 THEN 255 ELSE 0]]]))

\* the image the windowed SSIM of skimage yields for frames of at least
\* SsimWinSize on each side; its pixel values are outside the model
SsimHeatmap(gt, pred) == [kind |-> "ssim_heatmap", b |-> FALSE, f |-> gt]

composite_ssim_map(gt, pred) ==
    IF gt.c < 3 \/ pred.c < 3 THEN RetRaise
    ELSE IF gt.h < SsimWinSize \/ gt.w < SsimWinSize
            \/ pred.h < SsimWinSize \/ pred.w < SsimWinSize
         THEN composite_difference(gt, pred)
         ELSE SsimHeatmap(gt, pred)

composite_blend_uint8_sum(gt, pred) ==
    IF ~Broadcasts(gt.c, pred.c) \/ Max(gt.c, pred.c) < 4 THEN RetRaise
    ELSE RetFrame(Image(gt.h, gt.w, Max(gt.c, pred.c),
            [y \in 1..gt.h |-> [x \in 1..gt.w |->
                [k \in 1..Max(gt.c, pred.c) |->
                    IF k = 4 THEN 255
                    ELSE ((Chan(gt.px[y][x], k - 1) + Chan(pred.px[y][x], k - 1)) % 256)
                            \div 2]]]))

composite_blend(gt, pred) ==
    IF ~Broadcasts(gt.c, pred.c) \/ Max(gt.c, pred.c) < 4 THEN RetRaise
    ELSE RetFrame(Image(gt.h, gt.w, Max(gt.c, pred.c),
            [y \in 1..gt.h |-> [x \in 1..gt.w |->
                [k \in 1..Max(gt.c, pred.c) |->
                    IF k = 4 THEN 255
                    ELSE (Chan(gt.px[y][x], k - 1) + Chan(pred.px[y][x], k - 1)) \div 2]]]))

composite_flicker_stuck(flicker, gt, pred) == RetFrame(pred)

composite_flicker(flicker, gt, pred) ==
    IF flicker THEN RetFrame(gt) ELSE RetFrame(pred)

\* ceil(a / b) for positive b
CeilDiv(a, b) == (a + b - 1) \div b

OnGridLineNever(v, size, thickness) == FALSE

\* column (or row) v, 0-based, lies on a grid line: lines start at every
\* multiple of size below the extent and are `thickness` wide
OnGridLine(v, size, thickness) ==
    \E k \in 0..(v \div size) : k * size <= v /\ v < k * size + thickness

\* pixel (y, x), 0-based, lies in the marker dot of some predicted tile
InMarkerDot(y, x, h, w, size) ==
    LET dot_size == Max(3, size \div 10)
    IN  \E ty \in 0..(CeilDiv(h, size) - 1), tx \in 0..(CeilDiv(w, size) - 1) :
            /\ (ty + tx) % 2 = 1
            /\ ty * size + 2 <= y /\ y < Min(ty * size + 2 + dot_size, h)
            /\ tx * size + 2 <= x /\ x < Min(tx * size + 2 + dot_size, w)

grid_color == <<80, 80, 80, 255>>

magenta == <<255, 80, 255, 255>>

composite_checkerboard(size, thickness, gt, pred) ==
    IF gt.c # 4 \/ pred.c < 4 THEN RetRaise
    ELSE RetFrame(Image(gt.h, gt.w, 4,
            [y \in 1..gt.h |-> [x \in 1..gt.w |->
                IF InMarkerDot(y - 1, x - 1, gt.h, gt.w, size) THEN magenta
                ELSE IF OnGridLine(x - 1, size, thickness)
                        \/ OnGridLine(y - 1, size, thickness) THEN grid_color
                ELSE IF (((y - 1) \div size) + ((x - 1) \div size)) % 2 = 0
                     THEN SubSeq(gt.px[y][x], 1, 4)
                     ELSE SubSeq(pred.px[y][x], 1, 4)]]))

\* a pixel assigned into a 4-channel row: one channel is repeated
Widen4(p) == IF Len(p) = 1 THEN <<p[1], p[1], p[1], p[1]>> ELSE p

composite_side_by_side_swapped(gt, pred) ==
    IF gt.c \notin {1, 4} \/ pred.c \notin {1, 4} THEN RetRaise
    ELSE RetFrame(Image(gt.h, 2 * gt.w, 4,
            [y \in 1..gt.h |-> [x \in 1..(2 * gt.w) |->
                IF x <= gt.w THEN Widen4(pred.px[y][x])
                ELSE Widen4(gt.px[y][x - gt.w])]]))

composite_side_by_side(gt, pred) ==
    IF gt.c \notin {1, 4} \/ pred.c \notin {1, 4} THEN RetRaise
    ELSE RetFrame(Image(gt.h, 2 * gt.w, 4,
            [y \in 1..gt.h |-> [x \in 1..(2 * gt.w) |->
                IF x <= gt.w THEN Widen4(gt.px[y][x])
                ELSE Widen4(pred.px[y][x - gt.w])]]))

\* the dispatch of composite() on the size-matched RGBA frames
dispatch(m, flicker, gt, pred) ==
    IF m = "NORMAL" THEN composite_normal(gt, pred)
    ELSE IF m = "DUAL_COLOR" THEN composite_dual_color(gt, pred)
    ELSE IF m = "DIFFERENCE" THEN composite_difference(gt, pred)
    ELSE IF m = "SSIM_MAP" THEN composite_ssim_map(gt, pred)
    ELSE IF m = "BLEND" THEN composite_blend(gt, pred)
    ELSE IF m = "FLICKER" THEN composite_flicker(flicker, gt, pred)
    ELSE IF m = "CHECKERBOARD"
         THEN composite_checkerboard(checker_size, grid_thickness, gt, pred)
    ELSE IF m = "SIDE_BY_SIDE" THEN composite_side_by_side(gt, pred)
    ELSE RetFrame(gt)

\* the head of composite(): both frames coerced to RGBA, pred resized to gt
size_match(gt_frame, pred_frame) ==
    LET gt == ensure_rgba(gt_frame)
        pred == ensure_rgba(pred_frame)
    IN  IF Shape(gt) # Shape(pred)
        THEN LET resized == pil_resize(pred, gt.w, gt.h)
             IN  [raised |-> resized.kind = "raise", gt |-> gt, pred |-> resized.f]
        ELSE [raised |-> FALSE, gt |-> gt, pred |-> pred]

composite(m, flicker, gt_frame, pred_frame) ==
    LET sm == size_match(gt_frame, pred_frame)
    IN  IF sm.raised THEN RetRaise ELSE dispatch(m, flicker, sm.gt, sm.pred)

(***************************************************************************)
(* GridOverlay (src/src/overlay_engine.py).  The opacity is counted in     *)
(* quarters, so that every blend is exact in float32: a channel that n     *)
(* lines cross is blended n times, result * (1 - alpha) + color * alpha,   *)
(* and astype(np.uint8) cuts the fraction off.                             *)
(***************************************************************************)
\* how many grid lines cover column (or row) v, 0-based, of `extent`
\* columns: lines start at the multiples of size and are `thickness` wide
LinesOver(v, size, thickness, extent) ==
    Cardinality({k \in 0..((extent - 1) \div size) :
                    k * size <= v /\ v < k * size + thickness})

RECURSIVE BlendTimes(_, _, _, _, _)
\* the channel value num / den blended n times with col at opacity q / 4
BlendTimes(num, den, col, q, n) ==
    IF n = 0 THEN num \div den
    ELSE BlendTimes(num * (4 - q) + col * q * den, den * 4, col, q, n - 1)

apply_ignoring_enabled(g, frame) ==
    IF frame.nd = 2 \/ frame.c < 3 THEN RetRaise
    ELSE RetFrame([frame EXCEPT !.px =
            [y \in 1..frame.h |-> [x \in 1..frame.w |->
                LET n == LinesOver(x - 1, g.size, g.thickness, frame.w)
                         + LinesOver(y - 1, g.size, g.thickness, frame.h)
                    p == frame.px[y][x]
                IN  [k \in 1..Len(p) |->
                        IF k <= 3 THEN BlendTimes(p[k], 1, g.color[k], g.opacity, n)
                        ELSE p[k]]]]])

\* GridOverlay.apply; indexing channel 0..2 of a 2-D array or of an array
\* with fewer than three channels raises IndexError
apply(g, frame) ==
    IF ~g.enabled THEN RetFrame(frame)
    ELSE IF frame.nd = 2 \/ frame.c < 3 THEN RetRaise
    ELSE RetFrame([frame EXCEPT !.px =
            [y \in 1..frame.h |-> [x \in 1..frame.w |->
                LET n == LinesOver(x - 1, g.size, g.thickness, frame.w)
                         + LinesOver(y - 1, g.size, g.thickness, frame.h)
                    p == frame.px[y][x]
                IN  [k \in 1..Len(p) |->
                        IF k <= 3 THEN BlendTimes(p[k], 1, g.color[k], g.opacity, n)
                        ELSE p[k]]]]])

(***************************************************************************)
(* MetricsCalculator (src/src/metrics.py).  The scores themselves come     *)
(* from skimage, torch, pytorch_msssim, lpips and numpy; the model takes   *)
(* them from an environment env: env.scores holds what each library        *)
(* computation returns when it succeeds, env.fails the computations that   *)
(* raise, env.loadable whether torch and lpips import and the network      *)
(* loads.  What the repository's own code decides (conversions, the size   *)
(* threshold, the fallbacks, the caching of the network) is computed.      *)
(* Scores are integers; a mean is the exact fraction [num, den].           *)
(***************************************************************************)
Metrics == {"psnr", "ssim", "ms_ssim", "lpips", "mse", "mae"}

\* MS-SSIM is computed only when the shorter side has at least this many pixels
MsSsimMinDim == 160

\* a frame given to the metrics, by its shape only
MetricFrame(h, w, nd, c) == [h |-> h, w |-> w, nd |-> nd, c |-> c]

\* shape of _to_rgb(img): a 2-D array is stacked three times, an RGBA array
\* loses its alpha channel, anything else passes unchanged
to_rgb(img) ==
    IF img.nd = 2 THEN <<img.h, img.w, 3>>
    ELSE IF img.c = 4 THEN <<img.h, img.w, 3>>
    ELSE <<img.h, img.w, img.c>>

\* _to_grayscale(img) indexes channels 0..2 of a 3-D array: IndexError
\* when it has fewer than three channels
to_grayscale_raises(img) == img.nd # 2 /\ img.c < 3

\* numpy broadcasting of two 3-D shapes
BroadcastShapes(s1, s2) ==
    \A k \in 1..3 : s1[k] = s2[k] \/ s1[k] = 1 \/ s2[k] = 1

Frac(num, den) == [num |-> num, den |-> den]

FracEq(a, b) == a.num * b.den = b.num * a.den

calculate_psnr(env, gt, pred) ==
    IF to_rgb(gt) # to_rgb(pred) \/ "psnr" \in env.fails THEN 0
    ELSE env.scores.psnr

calculate_ssim(env, gt, pred) ==
    IF \/ to_grayscale_raises(gt) \/ to_grayscale_raises(pred)
       \/ gt.h # pred.h \/ gt.w # pred.w
       \/ Min(gt.h, gt.w) < SsimWinSize
       \/ "ssim" \in env.fails
    THEN 0
    ELSE env.scores.ssim

calculate_ms_ssim_no_threshold(env, gt, pred) ==
    IF "ms_ssim" \in env.fails THEN calculate_ssim(env, gt, pred)
    ELSE IF to_rgb(gt) # to_rgb(pred) THEN calculate_ssim(env, gt, pred)
    ELSE env.scores.ms_ssim

calculate_ms_ssim(env, gt, pred) ==
    IF "ms_ssim" \in env.fails THEN calculate_ssim(env, gt, pred)
    ELSE IF Min(gt.h, gt.w) < MsSsimMinDim THEN calculate_ssim(env, gt, pred)
    ELSE IF to_rgb(gt) # to_rgb(pred) THEN calculate_ssim(env, gt, pred)
    ELSE env.scores.ms_ssim

\* _get_lpips_model: the calculator's network after the call
get_lpips_model(env, model) ==
    IF model = "none" /\ env.loadable THEN "loaded" ELSE model

\* calculate_lpips: the score and the calculator's network after the call
calculate_lpips(env, model, gt, pred) ==
    LET after == get_lpips_model(env, model)
    IN  [value |-> IF after = "none" \/ "lpips" \in env.fails THEN 0
                   ELSE env.scores.lpips,
         model |-> after]

calculate_mse(env, gt, pred) ==
    IF ~BroadcastShapes(to_rgb(gt), to_rgb(pred)) \/ "mse" \in env.fails THEN 0
    ELSE env.scores.mse

calculate_mae(env, gt, pred) ==
    IF ~BroadcastShapes(to_rgb(gt), to_rgb(pred)) \/ "mae" \in env.fails THEN 0
    ELSE env.scores.mae

\* calculate_frame_metrics: the FrameMetrics record and the network after it
calculate_frame_metrics(env, model, gt, pred, frame_index) ==
    LET l == calculate_lpips(env, model, gt, pred)
    IN  [metrics |-> [frame_index |-> frame_index,
                      psnr |-> calculate_psnr(env, gt, pred),
                      ssim |-> calculate_ssim(env, gt, pred),
                      ms_ssim |-> calculate_ms_ssim(env, gt, pred),
                      lpips |-> l.value,
                      mse |-> calculate_mse(env, gt, pred),
                      mae |-> calculate_mae(env, gt, pred)],
         model |-> l.model]

\* SequenceMetrics(0, 0, 0, 0, 0, 0, 0)
ZeroSequenceMetrics ==
    [psnr |-> Frac(0, 1), ssim |-> Frac(0, 1), ms_ssim |-> Frac(0, 1),
     lpips |-> Frac(0, 1), mse |-> Frac(0, 1), mae |-> Frac(0, 1), frame_count |-> 0]

RECURSIVE SumOf(_, _)
\* the sum of field k over a list of records of integers
SumOf(list, k) ==
    IF list = <<>> THEN 0 ELSE list[1][k] + SumOf(Tail(list), k)

\* np.mean of field k over a non-empty list
MeanOf(list, k) == Frac(SumOf(list, k), Len(list))

RECURSIVE FrameLoop(_, _, _, _, _, _)
\* the loop of calculate_sequence_metrics from index i (0-based) on
FrameLoop(env, model, gt_frames, pred_frames, i, frame_metrics) ==
    IF i >= Min(Len(gt_frames), Len(pred_frames))
    THEN [frames |-> frame_metrics, model |-> model]
    ELSE LET r == calculate_frame_metrics(env, model, gt_frames[i + 1], pred_frames[i + 1], i)
         IN  FrameLoop(env, r.model, gt_frames, pred_frames, i + 1,
                       Append(frame_metrics, r.metrics))

SequenceOf(frame_metrics, min_frames) ==
    IF frame_metrics = <<>> THEN ZeroSequenceMetrics
    ELSE [psnr |-> MeanOf(frame_metrics, "psnr"),
          ssim |-> MeanOf(frame_metrics, "ssim"),
          ms_ssim |-> MeanOf(frame_metrics, "ms_ssim"),
          lpips |-> MeanOf(frame_metrics, "lpips"),
          mse |-> MeanOf(frame_metrics, "mse"),
          mae |-> MeanOf(frame_metrics, "mae"),
          frame_count |-> min_frames]

calculate_sequence_metrics_max(env, model, gt_frames, pred_frames) ==
    LET r == FrameLoop(env, model, gt_frames, pred_frames, 0, <<>>)
    IN  [seq |-> SequenceOf(r.frames, Max(Len(gt_frames), Len(pred_frames))),
         frames |-> r.frames, model |-> r.model]

\* calculate_sequence_metrics: the aggregate, the per-frame list and the
\* network after the call
calculate_sequence_metrics(env, model, gt_frames, pred_frames) ==
    LET r == FrameLoop(env, model, gt_frames, pred_frames, 0, <<>>)
    IN  [seq |-> SequenceOf(r.frames, Min(Len(gt_frames), Len(pred_frames))),
         frames |-> r.frames, model |-> r.model]

RECURSIVE FracSum(_, _)
\* the sum of the fractions in field k over a list of SequenceMetrics
FracSum(list, k) ==
    IF list = <<>> THEN Frac(0, 1)
    ELSE LET a == list[1][k]
             b == FracSum(Tail(list), k)
         IN  Frac(a.num * b.den + b.num * a.den, a.den * b.den)

\* np.mean of the fractions in field k over a non-empty list
FracMean(list, k) ==
    LET s == FracSum(list, k) IN Frac(s.num, s.den * Len(list))

average_sequence_metrics_exact_count(metrics_list) ==
    IF metrics_list = <<>> THEN ZeroSequenceMetrics
    ELSE [psnr |-> FracMean(metrics_list, "psnr"),
          ssim |-> FracMean(metrics_list, "ssim"),
          ms_ssim |-> FracMean(metrics_list, "ms_ssim"),
          lpips |-> FracMean(metrics_list, "lpips"),
          mse |-> FracMean(metrics_list, "mse"),
          mae |-> FracMean(metrics_list, "mae"),
          frame_count |-> SumOf(metrics_list, "frame_count")]

\* average_sequence_metrics; int() truncates the mean of the frame counts
average_sequence_metrics(metrics_list) ==
    IF metrics_list = <<>> THEN ZeroSequenceMetrics
    ELSE [psnr |-> FracMean(metrics_list, "psnr"),
          ssim |-> FracMean(metrics_list, "ssim"),
          ms_ssim |-> FracMean(metrics_list, "ms_ssim"),
          lpips |-> FracMean(metrics_list, "lpips"),
          mse |-> FracMean(metrics_list, "mse"),
          mae |-> FracMean(metrics_list, "mae"),
          frame_count |-> SumOf(metrics_list, "frame_count") \div Len(metrics_list)]

(***************************************************************************)
(* The main window's display state (src/src/app.py and src/src/widgets).   *)
(* A Qt signal runs its slots before emit() returns, so a handler and the  *)
(* handlers its widgets call back into are one function of the state.  w   *)
(* is what a handler reads besides the widgets: the two frame lists, the   *)
(* engine's mode and its flicker phase.  An image is kept as what it was   *)
(* made of, not by its pixels.                                             *)
(***************************************************************************)
World(gt, pred, m, flicker) == [gt |-> gt, pred |-> pred, mode |-> m, flicker |-> flicker]

Clamp(v, lo, hi) == Max(lo, Min(v, hi))

\* OverlayModePanel._modes: button id -> mode; the ids are 0..6
PanelModes ==
    <<"NORMAL", "DUAL_COLOR", "DIFFERENCE", "BLEND", "FLICKER", "CHECKERBOARD",
      "SIDE_BY_SIDE">>

\* self._modes.get(mode_id, OverlayMode.BLEND)
ModeOfButton(mode_id) ==
    IF 0 <= mode_id /\ mode_id < Len(PanelModes) THEN PanelModes[mode_id + 1] ELSE "BLEND"

\* the image made of frame `index`: both frames composited under the
\* engine's mode (the phase shows in FLICKER only), or one frame copied
Overlay(kind, index, m, flicker) ==
    IF kind = "composite"
    THEN [kind |-> kind, index |-> index, mode |-> m, flicker |-> (m = "FLICKER" /\ flicker)]
    ELSE [kind |-> kind, index |-> index, mode |-> "", flicker |-> FALSE]

\* what _update_display and the loop of _save_overlay make of frame `index`
OverlayAt(w, index) ==
    IF get_frame(w.gt, index) # RetNone /\ get_frame(w.pred, index) # RetNone
    THEN Overlay("composite", index, w.mode, w.flicker)
    ELSE IF get_frame(w.gt, index) # RetNone THEN Overlay("gt", index, w.mode, w.flicker)
    ELSE Overlay("pred", index, w.mode, w.flicker)

\* the viewport before any set_image
NoImage == [kind |-> "none", index |-> 0, mode |-> "", flicker |-> FALSE]

\* GifCompareApp._update_display; found is whether this refresh had a frame
\* to show
update_display(u, w) ==
    IF get_frame(w.gt, u.current_frame) = RetNone /\ get_frame(w.pred, u.current_frame) = RetNone
    THEN [u EXCEPT !.found = FALSE]
    ELSE [u EXCEPT !.found = TRUE, !.viewport = OverlayAt(w, u.current_frame)]

\* PlaybackControls.set_frame without its emit
playback_set_frame(pb, frame) ==
    IF pb.frame_count = 0 THEN pb
    ELSE [pb EXCEPT !.current_frame = Clamp(frame, 0, pb.frame_count - 1),
                    !.spin = Clamp(frame, 0, pb.frame_count - 1)]

\* FrameStrip.set_selected
set_selected(strip, index) ==
    IF strip.n = 0 THEN strip ELSE [strip EXCEPT !.selected = Clamp(index, 0, strip.n - 1)]

\* GifCompareApp._on_frame_changed (_updating is False whenever a signal
\* reaches it: nothing it calls emits)
on_frame_changed(u, frame, w) ==
    update_display(
        [u EXCEPT !.current_frame = frame,
                  !.playback = playback_set_frame(@, frame),
                  !.slider.value = Clamp(frame, 0, u.slider.max),
                  !.gt_strip = set_selected(@, frame),
                  !.pred_strip = set_selected(@, frame)], w)

\* PlaybackControls.set_frame(frame), emit = True
set_frame(u, frame, w) ==
    IF u.playback.frame_count = 0 THEN u
    ELSE on_frame_changed([u EXCEPT !.playback = playback_set_frame(@, frame)],
                          Clamp(frame, 0, u.playback.frame_count - 1), w)

\* PlaybackControls._on_spinbox_change
on_spinbox_change(u, value, w) ==
    IF value # u.playback.current_frame THEN set_frame(u, value, w) ELSE u

\* PlaybackControls.set_frame_count; QSpinBox.setMaximum pulls the value
\* down to the new maximum and emits valueChanged when it does
set_frame_count(u, count, w) ==
    LET top == Max(0, count - 1)
        u1 == [u EXCEPT !.playback.frame_count = count]
        u2 == IF u1.playback.spin > top
              THEN on_spinbox_change([u1 EXCEPT !.playback.spin = top], top, w)
              ELSE u1
    IN  IF u2.playback.current_frame >= count THEN set_frame(u2, 0, w) ELSE u2

\* FrameSlider.set_frame_count; QSlider.setMaximum pulls the value down and
\* emits valueChanged, which FrameSlider passes on as frame_changed
slider_set_frame_count(u, count, w) ==
    LET top == Max(0, count - 1)
    IN  IF u.slider.value > top
        THEN on_frame_changed([u EXCEPT !.slider = [max |-> top, value |-> top]], top, w)
        ELSE [u EXCEPT !.slider.max = top]

\* FrameStrip.set_thumbnails with one thumbnail per frame
set_thumbnails(strip, n) ==
    IF n = 0 THEN [strip EXCEPT !.n = 0]
    ELSE set_selected([strip EXCEPT !.n = n], Min(strip.selected, n - 1))

\* GifCompareApp._update_after_load
update_after_load(u, target, w) ==
    LET max_frames == Max(get_frame_count(w.gt), get_frame_count(w.pred))
        u1 == IF target = "gt"
              THEN [u EXCEPT !.gt_strip = set_thumbnails(@, get_frame_count(w.gt))]
              ELSE [u EXCEPT !.pred_strip = set_thumbnails(@, get_frame_count(w.pred))]
    IN  update_display(
            slider_set_frame_count(set_frame_count(u1, max_frames, w), max_frames, w), w)

\* GifHandler.get_duration
get_duration(ds, index) ==
    IF 0 <= index /\ index < Len(ds) THEN ds[index + 1] ELSE DefaultDuration

\* Python's `a or b` on integers
PyOr(a, b) == IF a # 0 THEN a ELSE b

(***************************************************************************)
(* The frames the engine is driven with.  Every frame is smaller than the  *)
(* SSIM window, so SSIM_MAP always takes its fallback.                     *)
(***************************************************************************)
\* RGBA, 1 x 2
FrameA == Image(1, 2, 4, <<<<(<<255, 0, 0, 255>>), (<<0, 64, 128, 255>>)>>>>)

\* RGBA, 1 x 2, differing from FrameA in the second pixel
FrameB == Image(1, 2, 4, <<<<(<<255, 0, 0, 255>>), (<<0, 0, 0, 255>>)>>>>)

\* RGBA, 1 x 2, with transparent and half-transparent pixels
FrameT == Image(1, 2, 4, <<<<(<<10, 20, 30, 0>>), (<<200, 100, 50, 128>>)>>>>)

\* grayscale H x W array, 1 x 2
FrameGray == [h |-> 1, w |-> 2, nd |-> 2, c |-> 1, px |-> <<<<(<<7>>), (<<200>>)>>>>]

\* RGB, 2 x 1, uniform
FrameRGB == Solid(2, 1, 3, <<90, 90, 90>>)

\* one channel kept as a third axis, H x W x 1, 1 x 2
FrameMono == Image(1, 2, 1, <<<<(<<5>>), (<<9>>)>>>>)

\* RGBA, 2 x 1, uniform and opaque
FrameTall == Solid(2, 1, 3, <<90, 90, 90, 255>>)

OverlayFrames == {FrameA, FrameB, FrameT, FrameGray, FrameRGB, FrameMono, FrameTall}

FramePairs ==
    {pair \in OverlayFrames \X OverlayFrames : Resamplable(pair[1], pair[2])}

\* the pairs whose first composite() call the history variable memo keeps
ProbePairs == {<<FrameA, FrameB>>, <<FrameT, FrameT>>}

(***************************************************************************)
(* The store as a state machine: one action per GifHandler method.         *)
(***************************************************************************)
Indices == (-MaxIndex)..MaxIndex

Call(op, index, frame, duration) ==
    [op |-> op, index |-> index, frame |-> frame, duration |-> duration]

ECall(op, gt_frame, pred_frame) == [op |-> op, gt |-> gt_frame, pred |-> pred_frame]

\* memo: no composite() call kept yet
NoMemo ==
    [set |-> FALSE, m |-> "", flicker |-> FALSE, gt |-> NoFrame, pred |-> NoFrame,
     out |-> RetNone, between |-> FALSE, again |-> FALSE]

\* OverlayEngine.__init__
EngineInit ==
    /\ mode = "SIDE_BY_SIDE"
    /\ flicker_state = FALSE
    /\ ecall = ECall("init", NoFrame, NoFrame)
    /\ result = RetNone
    /\ memo = NoMemo

\* no _composite_checkerboard application: the engine's constructor values
NoChecker ==
    [size |-> checker_size, thickness |-> grid_thickness, gt |-> NoFrame,
     pred |-> NoFrame, done |-> FALSE, out |-> RetNone]

CheckerIdle == cb = NoChecker

\* GifHandler.__init__
StoreInit ==
    /\ frames = <<>>
    /\ durations = <<>>
    /\ call = Call("init", 0, NoFrame, 0)
    /\ ret = RetNone
    /\ loaded_ok = FALSE

\* MetricsCalculator.__init__
MetricsInit ==
    /\ lpips_model = "none"
    /\ mcall = [op |-> "init"]
    /\ mret = [kind |-> "none"]

\* no batch operation under way; the last one was `last`, ended as `outcome`
\* after i iterations with `collected` results
Idle(last, outcome, i, collected) ==
    [op |-> "idle", last |-> last, outcome |-> outcome, i |-> i, collected |-> collected]

\* MetricsTab.__init__: nothing displayed
NoShown == [has_seq |-> FALSE, frames |-> <<>>]

\* no file at the export path
NoFile == [exists |-> FALSE]

\* the widgets as _setup_ui leaves them: SIDE BY SIDE is the checked button
UiInit ==
    [current_frame |-> 0,
     playback |-> [frame_count |-> 0, current_frame |-> 0, spin |-> 0],
     slider |-> [max |-> 0, value |-> 0],
     gt_strip |-> [n |-> 0, selected |-> 0],
     pred_strip |-> [n |-> 0, selected |-> 0],
     panel |-> 6,
     viewport |-> NoImage,
     found |-> FALSE]

\* GifCompareApp.__init__
AppInit ==
    /\ gt_handler = <<>>
    /\ pred_handler = <<>>
    /\ loads = 0
    /\ batch = Idle("none", "none", 0, 0)
    /\ shown = NoShown
    /\ written = NoFile
    /\ gt_durations = <<>>
    /\ pred_durations = <<>>
    /\ flicker_timer = FALSE
    /\ ui = UiInit

\* GridOverlay.__init__; the opacity is kept in quarters (2 is 0.5)
GridInit ==
    /\ grid = [enabled |-> FALSE, size |-> 32, color |-> <<128, 128, 128>>,
               opacity |-> 2, thickness |-> 1]
    /\ gcall = [op |-> "init"]
    /\ gret = RetNone

Init == StoreInit /\ EngineInit /\ CheckerIdle /\ MetricsInit /\ AppInit /\ GridInit

Load ==
    \E file \in Files :
        LET r == load(file)
        IN  /\ frames' = r.frames
            /\ durations' = r.durations
            /\ call' = Call("load", 0, NoFrame, 0)
            /\ ret' = RetBool(r.ret)
            /\ loaded_ok' = (loaded_ok \/ r.ret)
            /\ UNCHANGED <<overlayVars, laterVars>>

GetFrame ==
    \E index \in Indices :
        /\ call' = Call("get_frame", index, NoFrame, 0)
        /\ ret' = get_frame(frames, index)
        /\ UNCHANGED <<frames, durations, loaded_ok>>
        /\ UNCHANGED <<overlayVars, laterVars>>

DeleteFrame ==
    \E index \in Indices :
        LET r == delete_frame(frames, durations, index)
        IN  /\ frames' = r.frames
            /\ durations' = r.durations
            /\ call' = Call("delete_frame", index, NoFrame, 0)
            /\ ret' = RetBool(r.ret)
            /\ UNCHANGED loaded_ok
            /\ UNCHANGED <<overlayVars, laterVars>>

InsertFrame ==
    \E index \in Indices, frame \in StoreFrames, duration \in CallerDurations :
        LET r == insert_frame(frames, durations, index, frame, duration)
        IN  /\ Len(frames) < MaxFrames
            /\ frames' = r.frames
            /\ durations' = r.durations
            /\ call' = Call("insert_frame", index, frame, duration)
            /\ ret' = RetBool(r.ret)
            /\ UNCHANGED loaded_ok
            /\ UNCHANGED <<overlayVars, laterVars>>

AddFrame ==
    \E frame \in StoreFrames, duration \in CallerDurations :
        LET r == add_frame(frames, durations, frame, duration)
        IN  /\ Len(frames) < MaxFrames
            /\ frames' = r.frames
            /\ durations' = r.durations
            /\ call' = Call("add_frame", Len(frames), frame, duration)
            /\ ret' = RetNone
            /\ UNCHANGED loaded_ok
            /\ UNCHANGED <<overlayVars, laterVars>>

Next ==
    \/ Load
    \/ GetFrame
    \/ DeleteFrame
    \/ InsertFrame
    \/ AddFrame

Spec == Init /\ [][Next]_vars

(***************************************************************************)
(* The engine as a state machine: one action per OverlayEngine method.     *)
(* memo keeps the first composite() call made on a probe pair, notes       *)
(* whether other calls followed it (between) and whether a later           *)
(* composite() call repeated its mode, phase and frames (again).           *)
(***************************************************************************)
SameKey(mm, m, flicker, gt_frame, pred_frame) ==
    /\ mm.set
    /\ mm.m = m
    /\ mm.flicker = flicker
    /\ mm.gt = gt_frame
    /\ mm.pred = pred_frame

SetMode ==
    \E m \in OverlayModes :
        /\ mode' = m
        /\ ecall' = ECall("set_mode", NoFrame, NoFrame)
        /\ result' = RetNone
        /\ memo' = IF memo.set THEN [memo EXCEPT !.between = TRUE] ELSE memo
        /\ UNCHANGED flicker_state
        /\ UNCHANGED <<storeVars, laterVars>>

ToggleFlicker ==
    /\ flicker_state' = ~flicker_state
    /\ ecall' = ECall("toggle_flicker", NoFrame, NoFrame)
    /\ result' = RetNone
    /\ memo' = IF memo.set THEN [memo EXCEPT !.between = TRUE] ELSE memo
    /\ UNCHANGED mode
    /\ UNCHANGED <<storeVars, laterVars>>

CompositeTogglingFlicker ==
    \E pair \in FramePairs :
        LET out == composite(mode, flicker_state, pair[1], pair[2])
        IN  /\ result' = out
            /\ ecall' = ECall("composite", pair[1], pair[2])
            /\ memo' = IF ~memo.set /\ pair \in ProbePairs
                       THEN [set |-> TRUE, m |-> mode, flicker |-> flicker_state,
                             gt |-> pair[1], pred |-> pair[2], out |-> out,
                             between |-> FALSE, again |-> FALSE]
                       ELSE IF SameKey(memo, mode, flicker_state, pair[1], pair[2])
                       THEN [memo EXCEPT !.again = TRUE]
                       ELSE IF memo.set THEN [memo EXCEPT !.between = TRUE]
                       ELSE memo
            /\ flicker_state' = ~flicker_state
            /\ UNCHANGED mode
            /\ UNCHANGED <<storeVars, laterVars>>

Composite ==
    \E pair \in FramePairs :
        LET out == composite(mode, flicker_state, pair[1], pair[2])
        IN  /\ result' = out
            /\ ecall' = ECall("composite", pair[1], pair[2])
            /\ memo' = IF ~memo.set /\ pair \in ProbePairs
                       THEN [set |-> TRUE, m |-> mode, flicker |-> flicker_state,
                             gt |-> pair[1], pred |-> pair[2], out |-> out,
                             between |-> FALSE, again |-> FALSE]
                       ELSE IF SameKey(memo, mode, flicker_state, pair[1], pair[2])
                       THEN [memo EXCEPT !.again = TRUE]
                       ELSE IF memo.set THEN [memo EXCEPT !.between = TRUE]
                       ELSE memo
            /\ UNCHANGED <<mode, flicker_state>>
            /\ UNCHANGED <<storeVars, laterVars>>

NextOverlay ==
    \/ SetMode
    \/ ToggleFlicker
    \/ Composite

SpecOverlay == Init /\ [][NextOverlay]_vars

(***************************************************************************)
(* _composite_checkerboard as a function of the engine's checker_size and  *)
(* grid_thickness attributes and of two RGBA frames: the inputs are drawn  *)
(* in the initial state and one step applies composite() to them with the  *)
(* mode CHECKERBOARD.                                                      *)
(***************************************************************************)
\* an RGBA frame whose every pixel is different: (row, column, tag, alpha)
Gradient(h, w, tag, alpha) ==
    Image(h, w, 4, [y \in 1..h |-> [x \in 1..w |-> <<y, x, tag, alpha>>]])

CheckerA(h, w) == Gradient(h, w, 10, 255)

CheckerB(h, w) == Gradient(h, w, 20, 200)

CellSizes == 2..MaxCell

Thicknesses == {1, 2}

CheckerSides == {MaxSide - 1, MaxSide}

InitCheckerboard ==
    /\ StoreInit
    /\ EngineInit
    /\ MetricsInit
    /\ AppInit
    /\ GridInit
    /\ \E size \in CellSizes, thickness \in Thicknesses,
          h \in CheckerSides, w \in CheckerSides, swap \in BOOLEAN :
            cb = [size |-> size, thickness |-> thickness,
                  gt |-> IF swap THEN CheckerB(h, w) ELSE CheckerA(h, w),
                  pred |-> IF swap THEN CheckerA(h, w) ELSE CheckerB(h, w),
                  done |-> FALSE, out |-> RetNone]

\* composite() with mode == CHECKERBOARD on the drawn frames
CompositeCheckerboard ==
    /\ ~cb.done
    /\ LET sm == size_match(cb.gt, cb.pred)
       IN  cb' = [cb EXCEPT !.done = TRUE,
                            !.out = IF sm.raised THEN RetRaise
                                    ELSE composite_checkerboard(cb.size, cb.thickness,
                                                                sm.gt, sm.pred)]
    /\ UNCHANGED <<storeVars, overlayVars, metricsVars, appVars, gridVars>>

NextCheckerboard == CompositeCheckerboard

SpecCheckerboard == InitCheckerboard /\ [][NextCheckerboard]_vars

(***************************************************************************)
(* MetricsCalculator's three entry points as functions: the call, its      *)
(* environment, its arguments and the calculator's network before the call *)
(* are drawn in the initial state and one step applies the call.           *)
(***************************************************************************)
\* 160 x 160 RGB: large enough for MS-SSIM
BigRGB == MetricFrame(MsSsimMinDim, MsSsimMinDim, 3, 3)

\* 160 x 200 RGB: another shape than BigRGB
WideRGB == MetricFrame(MsSsimMinDim, MsSsimMinDim + 40, 3, 3)

\* 8 x 8 RGBA: large enough for SSIM, too small for MS-SSIM
SmallRGBA == MetricFrame(SsimWinSize + 1, SsimWinSize + 1, 3, 4)

\* 4 x 4 grayscale: smaller than the SSIM window
TinyGray == MetricFrame(4, 4, 2, 1)

\* 8 x 8 x 1: one channel kept as a third axis
MonoFrame == MetricFrame(SsimWinSize + 1, SsimWinSize + 1, 3, 1)

MetricFrames == {BigRGB, WideRGB, SmallRGBA, TinyGray, MonoFrame}

ScoreTables ==
    {[psnr |-> 30, ssim |-> 9, ms_ssim |-> 8, lpips |-> 2, mse |-> 4, mae |-> 5],
     [psnr |-> 40, ssim |-> 7, ms_ssim |-> 6, lpips |-> 3, mse |-> 1, mae |-> 2]}

\* every combination of failing library computations
LibEnvs ==
    {[fails |-> f, scores |-> s, loadable |-> l] :
        f \in SUBSET Metrics, s \in ScoreTables, l \in BOOLEAN}

\* the environments the sequence calls are tried in
SeqEnvs ==
    {env \in LibEnvs : env.fails \in {{}, {"lpips"}, {"ssim", "mse"}, Metrics}}

Models == {"none", "loaded"}

\* the frame lists given to calculate_sequence_metrics
FrameLists == UNION {[1..n -> {BigRGB, SmallRGBA}] : n \in 0..MaxSeq}

\* a SequenceMetrics record
SeqRecord(p, n) ==
    [psnr |-> Frac(p, 1), ssim |-> Frac(p \div 10, 10), ms_ssim |-> Frac((p - 1) \div 10, 10),
     lpips |-> Frac(1, n + 1), mse |-> Frac(n, 3), mae |-> Frac(p, 7),
     frame_count |-> n]

SeqRecords == {SeqRecord(p, n) : p \in {30, 40, 41}, n \in 0..MaxSeq}

\* the lists given to average_sequence_metrics
SeqRecordLists == UNION {[1..n -> SeqRecords] : n \in 0..MaxAvg}

InitMetrics ==
    /\ StoreInit
    /\ EngineInit
    /\ CheckerIdle
    /\ AppInit
    /\ GridInit
    /\ mret = [kind |-> "none"]
    /\ \/ \E env \in LibEnvs, model \in Models, gt \in MetricFrames,
             pred \in MetricFrames, frame_index \in {0, MaxSeq - 1} :
               /\ lpips_model = model
               /\ mcall = [op |-> "calculate_frame_metrics", env |-> env, model |-> model,
                           gt |-> gt, pred |-> pred, frame_index |-> frame_index]
       \/ \E env \in SeqEnvs, model \in Models, gt_frames \in FrameLists,
             pred_frames \in FrameLists :
               /\ lpips_model = model
               /\ mcall = [op |-> "calculate_sequence_metrics", env |-> env, model |-> model,
                           gt_frames |-> gt_frames, pred_frames |-> pred_frames]
       \/ \E metrics_list \in SeqRecordLists :
               /\ lpips_model = "none"
               /\ mcall = [op |-> "average_sequence_metrics", metrics_list |-> metrics_list]

CalculateFrameMetrics ==
    /\ mcall.op = "calculate_frame_metrics"
    /\ mret.kind = "none"
    /\ LET r == calculate_frame_metrics(mcall.env, lpips_model, mcall.gt, mcall.pred,
                                        mcall.frame_index)
       IN  /\ mret' = [kind |-> "frame_metrics", metrics |-> r.metrics]
           /\ lpips_model' = r.model
    /\ UNCHANGED <<mcall, storeVars, overlayVars, checkerVars, appVars, gridVars>>

CalculateSequenceMetrics ==
    /\ mcall.op = "calculate_sequence_metrics"
    /\ mret.kind = "none"
    /\ LET r == calculate_sequence_metrics(mcall.env, lpips_model, mcall.gt_frames,
                                           mcall.pred_frames)
       IN  /\ mret' = [kind |-> "sequence_metrics", seq |-> r.seq, frames |-> r.frames]
           /\ lpips_model' = r.model
    /\ UNCHANGED <<mcall, storeVars, overlayVars, checkerVars, appVars, gridVars>>

AverageSequenceMetrics ==
    /\ mcall.op = "average_sequence_metrics"
    /\ mret.kind = "none"
    /\ mret' = [kind |-> "average", seq |-> average_sequence_metrics(mcall.metrics_list)]
    /\ UNCHANGED <<lpips_model, mcall, storeVars, overlayVars, checkerVars, appVars, gridVars>>

NextMetrics ==
    \/ CalculateFrameMetrics
    \/ CalculateSequenceMetrics
    \/ AverageSequenceMetrics

SpecMetrics == InitMetrics /\ [][NextMetrics]_vars

(***************************************************************************)
(* The application's metrics and batch handlers (src/src/app.py).  A       *)
(* batch handler runs one loop iteration per step: between two iterations  *)
(* QApplication.processEvents() lets the user press Cancel in the modal    *)
(* progress dialog.  Frames are kept by shape (every frame the application *)
(* loads is RGBA); what a file decodes to is the file itself.              *)
(***************************************************************************)
\* the frame lists a file decodes to
AppFrameLists == {<<>>, <<SmallRGBA, SmallRGBA>>}

\* a file given to the averaging run: whether GifHandler.load returns True
\* and the frames it leaves
AppFiles ==
    {[ok |-> FALSE, frames |-> <<>>],
     [ok |-> TRUE, frames |-> <<SmallRGBA, SmallRGBA>>]}

\* _on_discovery_selected hands over two paths or more
PathCounts == 2..MaxPaths

\* the libraries as the application finds them: nothing raises, the
\* network loads or does not
AppEnvs ==
    {env \in LibEnvs : env.fails = {} /\ env.scores.psnr = 30}

\* one more network built when a calculator's network went from none to loaded
Built(before, after) == IF before = "none" /\ after = "loaded" THEN 1 ELSE 0

\* an existing file given to _load_file: a file that decodes to no frame
\* makes GifHandler.load return False; no frame states a delay
LoadFiles ==
    {[ok |-> fs # <<>>, frames |-> fs, durations |-> [i \in 1..Len(fs) |-> DefaultDuration]] :
        fs \in AppFrameLists}

\* _load_file: the handler of `target` holds what the file decodes to, and
\* the widgets follow when load returned True
LoadFile ==
    \E target \in {"gt", "pred"}, file \in LoadFiles :
        /\ batch.op = "idle"
        /\ gt_handler' = IF target = "gt" THEN file.frames ELSE gt_handler
        /\ gt_durations' = IF target = "gt" THEN file.durations ELSE gt_durations
        /\ pred_handler' = IF target = "pred" THEN file.frames ELSE pred_handler
        /\ pred_durations' = IF target = "pred" THEN file.durations ELSE pred_durations
        /\ ui' = IF file.ok
                 THEN update_after_load(ui, target,
                          World(gt_handler', pred_handler', mode, flicker_state))
                 ELSE ui
        /\ UNCHANGED <<loads, batch, shown, written, flicker_timer>>
        /\ UNCHANGED <<storeVars, overlayVars, checkerVars, metricsVars, gridVars>>

\* whether the flicker timer fires while processEvents runs: only a running
\* timer can
TickChoices == IF flicker_timer THEN BOOLEAN ELSE {FALSE}

\* QApplication.processEvents() in a batch loop, as far as the engine goes:
\* a due flicker timer runs _on_flicker_tick
ProcessEvents(tick) ==
    /\ flicker_state' = IF tick THEN ~flicker_state ELSE flicker_state
    /\ ui' = IF tick
             THEN update_display(ui, World(gt_handler, pred_handler, mode, ~flicker_state))
             ELSE ui

\* _calculate_metrics: MetricsTab.calculate_metrics on the tab's own calculator
CalculateMetrics ==
    \E env \in AppEnvs :
        LET r == calculate_sequence_metrics(env, lpips_model, gt_handler, pred_handler)
        IN  /\ batch.op = "idle"
            /\ gt_handler # <<>>
            /\ pred_handler # <<>>
            /\ loads + Built(lpips_model, r.model) <= MaxLoads
            /\ lpips_model' = r.model
            /\ loads' = loads + Built(lpips_model, r.model)
            /\ shown' = [has_seq |-> TRUE, seq |-> r.seq, frames |-> r.frames]
            /\ UNCHANGED <<gt_handler, pred_handler, batch, written, viewVars>>
            /\ UNCHANGED <<mcall, mret, storeVars, overlayVars, checkerVars, gridVars>>

\* _calculate_averaged_metrics up to its loop: a new MetricsCalculator
StartAveraging ==
    \E n \in PathCounts :
        /\ batch.op = "idle"
        /\ gt_handler # <<>>
        /\ loads < MaxLoads
        /\ batch' = [op |-> "average", n |-> n, i |-> 0, canceled |-> FALSE,
                     acc |-> <<>>, model |-> "none"]
        /\ UNCHANGED <<gt_handler, pred_handler, loads, shown, written, viewVars>>
        /\ UNCHANGED <<storeVars, overlayVars, checkerVars, metricsVars, gridVars>>

AveragingIterationUnchecked ==
    \E env \in AppEnvs, click \in BOOLEAN, file \in AppFiles, tick \in TickChoices :
        LET r == calculate_sequence_metrics(env, batch.model, gt_handler, file.frames)
        IN  /\ batch.op = "average"
            /\ batch.i < batch.n
            /\ ProcessEvents(tick)
            /\ IF file.ok
               THEN /\ batch' = [batch EXCEPT !.i = @ + 1, !.canceled = click,
                                              !.acc = Append(@, r.seq), !.model = r.model]
                    /\ loads' = loads + Built(batch.model, r.model)
               ELSE /\ batch' = [batch EXCEPT !.i = @ + 1, !.canceled = click]
                    /\ UNCHANGED loads
            /\ UNCHANGED <<gt_handler, pred_handler, shown, written>>
            /\ UNCHANGED <<gt_durations, pred_durations, flicker_timer>>
            /\ UNCHANGED <<mode, ecall, result, memo>>
            /\ UNCHANGED <<storeVars, checkerVars, metricsVars, gridVars>>

\* one iteration of the loop of _calculate_averaged_metrics: the cancel
\* check, then processEvents (the user presses Cancel or not), the load of
\* the file at pred_paths[i] and its sequence metrics on the run's own
\* calculator
AveragingIteration ==
    \E env \in AppEnvs, click \in BOOLEAN, file \in AppFiles, tick \in TickChoices :
        LET r == calculate_sequence_metrics(env, batch.model, gt_handler, file.frames)
        IN  /\ batch.op = "average"
            /\ batch.i < batch.n
            /\ ProcessEvents(~batch.canceled /\ tick)
            /\ IF batch.canceled
               THEN /\ batch' = Idle("average", "canceled", batch.i, Len(batch.acc))
                    /\ UNCHANGED loads
               ELSE IF file.ok
               THEN /\ batch' = [batch EXCEPT !.i = @ + 1, !.canceled = click,
                                              !.acc = Append(@, r.seq), !.model = r.model]
                    /\ loads' = loads + Built(batch.model, r.model)
               ELSE /\ batch' = [batch EXCEPT !.i = @ + 1, !.canceled = click]
                    /\ UNCHANGED loads
            /\ UNCHANGED <<gt_handler, pred_handler, shown, written>>
            /\ UNCHANGED <<gt_durations, pred_durations, flicker_timer>>
            /\ UNCHANGED <<mode, ecall, result, memo>>
            /\ UNCHANGED <<storeVars, checkerVars, metricsVars, gridVars>>

\* _calculate_averaged_metrics after its loop: set_sequence_metrics
FinishAveraging ==
    /\ batch.op = "average"
    /\ batch.i = batch.n
    /\ shown' = IF batch.acc # <<>>
                THEN [has_seq |-> TRUE, seq |-> average_sequence_metrics(batch.acc),
                      frames |-> shown.frames]
                ELSE shown
    /\ batch' = Idle("average", "finished", batch.i, Len(batch.acc))
    /\ UNCHANGED <<gt_handler, pred_handler, loads, written, viewVars>>
    /\ UNCHANGED <<storeVars, overlayVars, checkerVars, metricsVars, gridVars>>

\* _save_overlay up to its loop, a path having been chosen
StartExport ==
    /\ batch.op = "idle"
    /\ gt_handler # <<>> \/ pred_handler # <<>>
    /\ batch' = [op |-> "export", n |-> Max(Len(gt_handler), Len(pred_handler)),
                 i |-> 0, canceled |-> FALSE, acc |-> <<>>, durations |-> <<>>]
    /\ UNCHANGED <<gt_handler, pred_handler, loads, shown, written, viewVars>>
    /\ UNCHANGED <<storeVars, overlayVars, checkerVars, metricsVars, gridVars>>

\* the duration _save_overlay appends for frame i (0-based)
export_duration(gt_ds, pred_ds, i) ==
    PyOr(PyOr(get_duration(gt_ds, i), get_duration(pred_ds, i)), 100)

\* one iteration of the loop of _save_overlay: the cancel check, then
\* processEvents, the overlay of frame i and its duration
ExportIteration ==
    \E click \in BOOLEAN, tick \in TickChoices :
        /\ batch.op = "export"
        /\ batch.i < batch.n
        /\ ProcessEvents(~batch.canceled /\ tick)
        /\ batch' = IF batch.canceled
                    THEN Idle("export", "canceled", batch.i, Len(batch.acc))
                    ELSE [batch EXCEPT
                            !.i = @ + 1, !.canceled = click,
                            !.acc = Append(@, OverlayAt(World(gt_handler, pred_handler,
                                                              mode, flicker_state'), batch.i)),
                            !.durations = Append(@, export_duration(gt_durations,
                                                                    pred_durations, batch.i))]
        /\ UNCHANGED <<gt_handler, pred_handler, loads, shown, written>>
        /\ UNCHANGED <<gt_durations, pred_durations, flicker_timer>>
        /\ UNCHANGED <<mode, ecall, result, memo>>
        /\ UNCHANGED <<storeVars, checkerVars, metricsVars, gridVars>>

\* _save_overlay after its loop: GifHandler.save writes the file or fails
FinishExport ==
    \E saved \in BOOLEAN :
        /\ batch.op = "export"
        /\ batch.i = batch.n
        /\ written' = IF saved
                      THEN [exists |-> TRUE, frames |-> batch.acc,
                            durations |-> batch.durations]
                      ELSE written
        /\ batch' = Idle("export", "finished", batch.i, Len(batch.acc))
        /\ UNCHANGED <<gt_handler, pred_handler, loads, shown, viewVars>>
        /\ UNCHANGED <<storeVars, overlayVars, checkerVars, metricsVars, gridVars>>

NextApp ==
    \/ LoadFile
    \/ CalculateMetrics
    \/ StartAveraging
    \/ AveragingIteration
    \/ FinishAveraging
    \/ StartExport
    \/ ExportIteration
    \/ FinishExport

SpecApp == Init /\ [][NextApp]_vars

(***************************************************************************)
(* The main window's display as a state machine: one action per user       *)
(* event or timer tick, each with everything its slots do.  No batch       *)
(* operation runs: its progress dialog is modal.                           *)
(***************************************************************************)
\* what the handlers read at the time of the event
Now == World(gt_handler, pred_handler, mode, flicker_state)

NavigationButtons == {"first", "prev", "next", "last"}

\* PlaybackControls.go_to_first / prev_frame / next_frame / go_to_last;
\* the playback timer's _on_timer does what next_frame does
Navigate ==
    \E button \in NavigationButtons :
        LET pb == ui.playback
        IN  /\ batch.op = "idle"
            /\ ui' = IF button = "first" THEN set_frame(ui, 0, Now)
                     ELSE IF pb.frame_count = 0 THEN ui
                     ELSE IF button = "prev"
                     THEN set_frame(ui, (pb.current_frame - 1) % pb.frame_count, Now)
                     ELSE IF button = "next"
                     THEN set_frame(ui, (pb.current_frame + 1) % pb.frame_count, Now)
                     ELSE set_frame(ui, pb.frame_count - 1, Now)
            /\ UNCHANGED <<gt_handler, pred_handler, loads, batch, shown, written>>
            /\ UNCHANGED <<gt_durations, pred_durations, flicker_timer>>
            /\ UNCHANGED <<storeVars, overlayVars, checkerVars, metricsVars, gridVars>>

\* the user sets the frame spin box, whose range is 0..max(0, count - 1)
SpinboxEdit ==
    \E value \in 0..Max(0, ui.playback.frame_count - 1) :
        /\ batch.op = "idle"
        /\ ui' = on_spinbox_change([ui EXCEPT !.playback.spin = value], value, Now)
        /\ UNCHANGED <<gt_handler, pred_handler, loads, batch, shown, written>>
        /\ UNCHANGED <<gt_durations, pred_durations, flicker_timer>>
        /\ UNCHANGED <<storeVars, overlayVars, checkerVars, metricsVars, gridVars>>

\* the user moves the frame slider: FrameSlider._on_change
SliderMove ==
    \E value \in 0..ui.slider.max :
        /\ batch.op = "idle"
        /\ value # ui.slider.value
        /\ ui' = on_frame_changed([ui EXCEPT !.slider.value = value], value, Now)
        /\ UNCHANGED <<gt_handler, pred_handler, loads, batch, shown, written>>
        /\ UNCHANGED <<gt_durations, pred_durations, flicker_timer>>
        /\ UNCHANGED <<storeVars, overlayVars, checkerVars, metricsVars, gridVars>>

\* the user clicks a thumbnail: FrameStrip._on_thumb_clicked
ThumbClicked ==
    \E target \in {"gt", "pred"} :
        LET strip == IF target = "gt" THEN ui.gt_strip ELSE ui.pred_strip
        IN  \E index \in 0..(strip.n - 1) :
                /\ batch.op = "idle"
                /\ ui' = on_frame_changed(
                             IF target = "gt"
                             THEN [ui EXCEPT !.gt_strip = set_selected(@, index)]
                             ELSE [ui EXCEPT !.pred_strip = set_selected(@, index)],
                             index, Now)
                /\ UNCHANGED <<gt_handler, pred_handler, loads, batch, shown, written>>
                /\ UNCHANGED <<gt_durations, pred_durations, flicker_timer>>
                /\ UNCHANGED <<storeVars, overlayVars, checkerVars, metricsVars, gridVars>>

\* the DEL button of a strip: FrameStrip._on_delete, then _delete_frame
StripDelete ==
    \E target \in {"gt", "pred"} :
        LET strip == IF target = "gt" THEN ui.gt_strip ELSE ui.pred_strip
            r == IF target = "gt"
                 THEN delete_frame(gt_handler, gt_durations, strip.selected)
                 ELSE delete_frame(pred_handler, pred_durations, strip.selected)
        IN  /\ batch.op = "idle"
            /\ strip.n > 1
            /\ gt_handler' = IF target = "gt" THEN r.frames ELSE gt_handler
            /\ gt_durations' = IF target = "gt" THEN r.durations ELSE gt_durations
            /\ pred_handler' = IF target = "pred" THEN r.frames ELSE pred_handler
            /\ pred_durations' = IF target = "pred" THEN r.durations ELSE pred_durations
            /\ ui' = IF r.ret
                     THEN update_after_load(ui, target,
                              World(gt_handler', pred_handler', mode, flicker_state))
                     ELSE ui
            /\ UNCHANGED <<loads, batch, shown, written, flicker_timer>>
            /\ UNCHANGED <<storeVars, overlayVars, checkerVars, metricsVars, gridVars>>

\* the ADD button of a strip with an image file chosen: FrameStrip._on_add,
\* then _add_frame
StripAdd ==
    \E target \in {"gt", "pred"} :
        LET strip == IF target = "gt" THEN ui.gt_strip ELSE ui.pred_strip
            r == IF target = "gt"
                 THEN insert_frame(gt_handler, gt_durations, strip.selected + 1,
                                   SmallRGBA, DefaultDuration)
                 ELSE insert_frame(pred_handler, pred_durations, strip.selected + 1,
                                   SmallRGBA, DefaultDuration)
        IN  /\ batch.op = "idle"
            /\ Len(IF target = "gt" THEN gt_handler ELSE pred_handler) < MaxStrip
            /\ gt_handler' = IF target = "gt" THEN r.frames ELSE gt_handler
            /\ gt_durations' = IF target = "gt" THEN r.durations ELSE gt_durations
            /\ pred_handler' = IF target = "pred" THEN r.frames ELSE pred_handler
            /\ pred_durations' = IF target = "pred" THEN r.durations ELSE pred_durations
            /\ ui' = update_after_load(ui, target,
                         World(gt_handler', pred_handler', mode, flicker_state))
            /\ UNCHANGED <<loads, batch, shown, written, flicker_timer>>
            /\ UNCHANGED <<storeVars, overlayVars, checkerVars, metricsVars, gridVars>>

SelectModeTimerKept ==
    \E mode_id \in 0..(Len(PanelModes) - 1) :
        /\ batch.op = "idle"
        /\ mode' = ModeOfButton(mode_id)
        /\ flicker_timer' = (flicker_timer \/ ModeOfButton(mode_id) = "FLICKER")
        /\ ui' = update_display([ui EXCEPT !.panel = mode_id],
                                World(gt_handler, pred_handler, mode', flicker_state))
        /\ UNCHANGED <<flicker_state, ecall, result, memo>>
        /\ UNCHANGED <<gt_handler, pred_handler, loads, batch, shown, written>>
        /\ UNCHANGED <<gt_durations, pred_durations>>
        /\ UNCHANGED <<storeVars, checkerVars, metricsVars, gridVars>>

\* a click on a mode button: OverlayModePanel._on_mode_changed, then
\* _on_overlay_mode_changed
SelectMode ==
    \E mode_id \in 0..(Len(PanelModes) - 1) :
        /\ batch.op = "idle"
        /\ mode' = ModeOfButton(mode_id)
        /\ flicker_timer' = (ModeOfButton(mode_id) = "FLICKER")
        /\ ui' = update_display([ui EXCEPT !.panel = mode_id],
                                World(gt_handler, pred_handler, mode', flicker_state))
        /\ UNCHANGED <<flicker_state, ecall, result, memo>>
        /\ UNCHANGED <<gt_handler, pred_handler, loads, batch, shown, written>>
        /\ UNCHANGED <<gt_durations, pred_durations>>
        /\ UNCHANGED <<storeVars, checkerVars, metricsVars, gridVars>>

\* the flicker timer fires outside a batch operation: _on_flicker_tick
FlickerTick ==
    /\ batch.op = "idle"
    /\ flicker_timer
    /\ ProcessEvents(TRUE)
    /\ UNCHANGED <<mode, ecall, result, memo, flicker_timer>>
    /\ UNCHANGED <<gt_handler, pred_handler, loads, batch, shown, written>>
    /\ UNCHANGED <<gt_durations, pred_durations>>
    /\ UNCHANGED <<storeVars, checkerVars, metricsVars, gridVars>>

NextView ==
    \/ LoadFile
    \/ Navigate
    \/ SpinboxEdit
    \/ SliderMove
    \/ ThumbClicked
    \/ StripDelete
    \/ StripAdd
    \/ SelectMode
    \/ FlickerTick

SpecView == Init /\ [][NextView]_vars

\* a click on the button with id mode_id
Select(mode_id) == SelectMode /\ ui'.panel = mode_id

\* a session in which no mode button stays unclicked for ever: whatever a
\* sequence of selections can reach, such a session reaches
SpecPanel ==
    Init /\ [][NextView]_vars /\ \A mode_id \in 0..(Len(PanelModes) - 1) : WF_vars(Select(mode_id))

(***************************************************************************)
(* The overlay export from the states a session leaves behind: the two     *)
(* stores hold the frames and durations of the files loaded, a mode button *)
(* was clicked and the flicker timer runs exactly in FLICKER mode.         *)
(***************************************************************************)
\* the delays the frames of a loaded file state; load keeps a stated 0
ExportDelays == {0, 40}

\* the duration lists of a store of 0..MaxStrip frames
ExportDurations == UNION {[1..n -> ExportDelays] : n \in 0..MaxStrip}

InitExport ==
    /\ StoreInit
    /\ CheckerIdle
    /\ MetricsInit
    /\ GridInit
    /\ ecall = ECall("init", NoFrame, NoFrame)
    /\ result = RetNone
    /\ memo = NoMemo
    /\ loads = 0
    /\ batch = Idle("none", "none", 0, 0)
    /\ shown = NoShown
    /\ written = NoFile
    /\ \E gt_ds \in ExportDurations, pred_ds \in ExportDurations,
          mode_id \in 0..(Len(PanelModes) - 1), flicker \in BOOLEAN :
            LET gt == [i \in 1..Len(gt_ds) |-> SmallRGBA]
                pred == [i \in 1..Len(pred_ds) |-> SmallRGBA]
                w == World(gt, pred, ModeOfButton(mode_id), flicker)
            IN  /\ gt_handler = gt
                /\ gt_durations = gt_ds
                /\ pred_handler = pred
                /\ pred_durations = pred_ds
                /\ mode = ModeOfButton(mode_id)
                /\ flicker_state = flicker
                /\ flicker_timer = (ModeOfButton(mode_id) = "FLICKER")
                /\ ui = update_after_load(
                            update_after_load([UiInit EXCEPT !.panel = mode_id], "gt", w),
                            "pred", w)

NextExport ==
    \/ StartExport
    \/ ExportIteration
    \/ FinishExport

SpecExport == InitExport /\ [][NextExport]_vars

(***************************************************************************)
(* The grid overlay as a state machine: one action per GridOverlay method. *)
(***************************************************************************)
\* sizes given to set_size; 3 is raised to 4
GridSizes == {3, 4, 5}

\* opacities given to set_opacity, in quarters; -1 and 5 are clamped
GridOpacities == {-1, 1, 2, 4, 5}

\* thicknesses given to set_thickness; 0 is raised to 1
GridThicknesses == {0, 1, 2}

GridColors == {<<128, 128, 128>>, <<255, 0, 0>>}

\* RGBA, 6 x 9, every pixel different
FrameWide == Image(6, 9, 4, [y \in 1..6 |-> [x \in 1..9 |-> <<20 * y, 20 * x, 7, 200>>]])

GridFrames == OverlayFrames \cup {FrameWide}

SetEnabled ==
    \E enabled \in BOOLEAN :
        /\ grid' = [grid EXCEPT !.enabled = enabled]
        /\ gcall' = [op |-> "set_enabled"]
        /\ gret' = RetNone
        /\ UNCHANGED <<storeVars, overlayVars, checkerVars, metricsVars, appVars>>

SetSize ==
    \E size \in GridSizes :
        /\ grid' = [grid EXCEPT !.size = Max(4, size)]
        /\ gcall' = [op |-> "set_size"]
        /\ gret' = RetNone
        /\ UNCHANGED <<storeVars, overlayVars, checkerVars, metricsVars, appVars>>

SetColor ==
    \E color \in GridColors :
        /\ grid' = [grid EXCEPT !.color = color]
        /\ gcall' = [op |-> "set_color"]
        /\ gret' = RetNone
        /\ UNCHANGED <<storeVars, overlayVars, checkerVars, metricsVars, appVars>>

SetOpacity ==
    \E opacity \in GridOpacities :
        /\ grid' = [grid EXCEPT !.opacity = Max(0, Min(4, opacity))]
        /\ gcall' = [op |-> "set_opacity"]
        /\ gret' = RetNone
        /\ UNCHANGED <<storeVars, overlayVars, checkerVars, metricsVars, appVars>>

SetThickness ==
    \E thickness \in GridThicknesses :
        /\ grid' = [grid EXCEPT !.thickness = Max(1, thickness)]
        /\ gcall' = [op |-> "set_thickness"]
        /\ gret' = RetNone
        /\ UNCHANGED <<storeVars, overlayVars, checkerVars, metricsVars, appVars>>

Apply ==
    \E frame \in GridFrames :
        /\ gcall' = [op |-> "apply", frame |-> frame]
        /\ gret' = apply(grid, frame)
        /\ UNCHANGED grid
        /\ UNCHANGED <<storeVars, overlayVars, checkerVars, metricsVars, appVars>>

NextGrid ==
    \/ SetEnabled
    \/ SetSize
    \/ SetColor
    \/ SetOpacity
    \/ SetThickness
    \/ Apply

SpecGrid == Init /\ [][NextGrid]_vars

(***************************************************************************)
(* Claims about the frame store, checked under Spec.                       *)
(***************************************************************************)

\* C1: delete_frame never takes a store holding at least one frame down to
\* zero frames; on a store with exactly one frame it returns False and
\* leaves frames and durations as they were.
C1_DeleteKeepsLastFrame ==
    [][call'.op = "delete_frame" =>
          /\ (Len(frames) >= 1 => Len(frames') >= 1)
          /\ (Len(frames) = 1 =>
                 /\ ret' = RetBool(FALSE)
                 /\ frames' = frames
                 /\ durations' = durations)]_vars

\* delete_frame(0) was called on a one-frame store and refused
C1_Witness ==
    /\ call.op = "delete_frame"
    /\ call.index = 0
    /\ Len(frames) = 1
    /\ ret = RetBool(FALSE)

\* C2: get_frame(index) returns the stored frame at that position exactly
\* when 0 <= index < count, and None, without raising, for every other
\* index, negative ones included.
C2_GetFrameDefinedOnRange ==
    call.op = "get_frame" =>
        IF 0 <= call.index /\ call.index < Len(frames)
        THEN ret = RetFrame(frames[call.index + 1])
        ELSE ret = RetNone

\* get_frame was called with a negative index that list indexing would accept
C2_Witness ==
    /\ call.op = "get_frame"
    /\ call.index < 0
    /\ -Len(frames) <= call.index
    /\ ret = RetNone

\* C3: insert_frame(count, frame, d) succeeds, leaves the store exactly as
\* add_frame(frame, d) would, raises the count by exactly 1, and
\* get_frame(count_before) then returns the inserted frame.
C3_InsertAtCountIsAppend ==
    [][(call'.op = "insert_frame" /\ call'.index = Len(frames)) =>
          LET a == add_frame(frames, durations, call'.frame, call'.duration)
          IN  /\ ret' = RetBool(TRUE)
              /\ frames' = a.frames
              /\ durations' = a.durations
              /\ get_frame_count(frames') = get_frame_count(frames) + 1
              /\ get_frame(frames', Len(frames)) = RetFrame(call'.frame)]_vars

\* insert_frame was called with index = count on a non-empty store
C3_Witness ==
    /\ call.op = "insert_frame"
    /\ Len(frames) >= 2
    /\ call.index = Len(frames) - 1
    /\ frames[Len(frames)] = call.frame
    /\ ret = RetBool(TRUE)

\* C4: once a load has succeeded, the store holds at least one frame in
\* every later state, whatever loads (successful or failing), inserts and
\* deletes follow.
C4_NonEmptyOnceLoaded == loaded_ok => Len(frames) >= 1

\* C5: whenever load returns False, the store afterwards holds zero frames
\* and zero durations, at whatever point of the decode the failure occurred.
C5_FailedLoadLeavesEmpty ==
    (call.op = "load" /\ ret = RetBool(FALSE)) =>
        (frames = <<>> /\ durations = <<>>)

\* C6: every stored duration is an integer >= 1 millisecond.
C6_DurationsAtLeastOne ==
    \A i \in 1..Len(durations) : durations[i] >= 1

\* list `after` is list `before` without its element at 0-based position i
RemovedAt(before, after, i) ==
    /\ Len(after) = Len(before) - 1
    /\ \A j \in 1..Len(after) : after[j] = IF j <= i THEN before[j] ELSE before[j + 1]

\* C22: delete_frame with an index outside [0, count) and insert_frame with
\* an index outside [0, count] return False and leave frames and durations
\* as they were; a successful delete_frame(i) or insert_frame(i, ...)
\* changes only position i and keeps every other (frame, duration) pair in
\* its relative order.
C22_RejectedChangesNothing ==
    [][LET i == call'.index
           n == Len(frames)
       IN  /\ (call'.op = "delete_frame" /\ ~(0 <= i /\ i < n)) =>
                  (ret' = RetBool(FALSE) /\ frames' = frames /\ durations' = durations)
           /\ (call'.op = "insert_frame" /\ ~(0 <= i /\ i <= n)) =>
                  (ret' = RetBool(FALSE) /\ frames' = frames /\ durations' = durations)
           /\ (call'.op = "delete_frame" /\ ret' = RetBool(TRUE)) =>
                  (RemovedAt(frames, frames', i) /\ RemovedAt(durations, durations', i))
           /\ (call'.op = "insert_frame" /\ ret' = RetBool(TRUE)) =>
                  /\ RemovedAt(frames', frames, i)
                  /\ RemovedAt(durations', durations, i)
                  /\ frames'[i + 1] = call'.frame
                  /\ durations'[i + 1] = call'.duration
           /\ (call'.op \in {"delete_frame", "insert_frame"} /\ ret' = RetBool(FALSE)) =>
                  (frames' = frames /\ durations' = durations)]_vars

\* delete_frame(count) was refused on a store of two different pairs
C22_Witness ==
    /\ call.op = "delete_frame"
    /\ call.index = Len(frames)
    /\ ret = RetBool(FALSE)
    /\ Len(frames) = 2
    /\ frames[1] # frames[2]
    /\ durations[1] # durations[2]

\* C24: in every state reachable by load (loads that fail part-way
\* included), insert_frame, add_frame and delete_frame, the frame list and
\* the duration list have the same length.
C24_OneDurationPerFrame == Len(frames) = Len(durations)

\* a load failed part-way and left the frames it had decoded, each with
\* its duration
C24_Witness ==
    /\ call.op = "load"
    /\ ret = RetBool(FALSE)
    /\ Len(frames) >= 1
    /\ Len(durations) = Len(frames)

(***************************************************************************)
(* Claims about the overlay engine, checked under SpecOverlay.             *)
(***************************************************************************)

\* a grayscale (H x W), RGB or RGBA frame
IsImageInput(frame) == frame.nd = 2 \/ frame.c \in {3, 4}

\* the last call was composite() on two identical frames in mode m
CompositeOfSame(m) ==
    /\ ecall.op = "composite"
    /\ mode = m
    /\ ecall.gt = ecall.pred

\* C7: composite never propagates an internal computation error: a failing
\* mode computation yields an image (a copy of frame_a), and in SSIM_MAP
\* mode a failing SSIM computation yields the DIFFERENCE output for the
\* same two frames.
C7_CompositeNeverPropagates ==
    (ecall.op = "composite" /\ ~size_match(ecall.gt, ecall.pred).raised) =>
        /\ result.kind # "raise"
        /\ (mode = "SSIM_MAP" /\ Min(ecall.gt.h, ecall.gt.w) < SsimWinSize) =>
               result = composite("DIFFERENCE", flicker_state, ecall.gt, ecall.pred)

C9_ZeroDifferenceGreen255 ==
    (CompositeOfSame("DIFFERENCE") /\ result.kind = "frame") =>
        \A y \in 1..result.f.h, x \in 1..result.f.w :
            LET p == result.f.px[y][x]
            IN  p[1] = 0 /\ 255 - p[2] <= 5 /\ p[3] = 255

\* C9 amended: in DIFFERENCE mode, for two identical grayscale, RGB or RGBA
\* frames every output pixel is red = 0, green = 0, blue = 255, alpha = 255.
C9_ZeroDifferenceIsBlue ==
    (CompositeOfSame("DIFFERENCE") /\ IsImageInput(ecall.gt)) =>
        result = RetFrame(Image(ecall.gt.h, ecall.gt.w, 4,
                    [y \in 1..ecall.gt.h |-> [x \in 1..ecall.gt.w |-> <<0, 0, 255, 255>>]]))

\* DIFFERENCE was applied to two copies of a frame whose pixels differ
C9_Witness ==
    /\ CompositeOfSame("DIFFERENCE")
    /\ ecall.gt = FrameA
    /\ result.kind = "frame"

\* C10 as stated: in BLEND mode composite(f, f) equals f in every channel
\* of every pixel, whatever f's alpha values.
C10_BlendOfSameIsSame ==
    (CompositeOfSame("BLEND") /\ result.kind = "frame") =>
        /\ result.f.h = ecall.gt.h
        /\ result.f.w = ecall.gt.w
        /\ \A y \in 1..ecall.gt.h, x \in 1..ecall.gt.w :
               \A k \in 1..Len(ecall.gt.px[y][x]) :
                   result.f.px[y][x][k] = ecall.gt.px[y][x][k]

\* C10 amended: in BLEND mode, for every grayscale, RGB or RGBA frame f,
\* composite(f, f) equals f (coerced to RGBA) in the red, green and blue
\* channels of every pixel, and its alpha is 255 in every pixel whatever
\* f's alpha.
C10_BlendOfSameKeepsColour ==
    (CompositeOfSame("BLEND") /\ IsImageInput(ecall.gt)) =>
        LET f == ensure_rgba(ecall.gt)
        IN  /\ result.kind = "frame"
            /\ Shape(result.f) = Shape(f)
            /\ \A y \in 1..f.h, x \in 1..f.w :
                   /\ \A k \in 1..3 : result.f.px[y][x][k] = f.px[y][x][k]
                   /\ result.f.px[y][x][4] = 255

\* BLEND was applied to two copies of a frame with transparent pixels
C10_Witness ==
    /\ CompositeOfSame("BLEND")
    /\ ecall.gt = FrameT
    /\ result.kind = "frame"
    /\ result.f.px[1][1][4] = 255
    /\ ecall.gt.px[1][1][4] = 0

\* the last call was composite() in mode m on two grayscale, RGB or RGBA frames
CompositeOfImages(m) ==
    /\ ecall.op = "composite"
    /\ mode = m
    /\ IsImageInput(ecall.gt)
    /\ IsImageInput(ecall.pred)

\* C12: in SIDE_BY_SIDE mode the output width is the sum of the two
\* size-matched input widths and the output height is the input height; the
\* left half equals frame_a (in its RGBA form) pixel for pixel and the right
\* half equals the size-matched frame_b pixel for pixel.
C12_SideBySideHalves ==
    CompositeOfImages("SIDE_BY_SIDE") =>
        LET a == ensure_rgba(ecall.gt)
            b == size_match(ecall.gt, ecall.pred).pred
        IN  /\ result.kind = "frame"
            /\ result.f.w = a.w + b.w
            /\ result.f.h = a.h
            /\ b.h = a.h
            /\ \A y \in 1..a.h :
                   /\ \A x \in 1..a.w : result.f.px[y][x] = a.px[y][x]
                   /\ \A x \in 1..b.w : result.f.px[y][a.w + x] = b.px[y][x]

\* SIDE_BY_SIDE was applied to two frames that differ and the halves differ
C12_Witness ==
    /\ CompositeOfImages("SIDE_BY_SIDE")
    /\ ecall.gt = FrameA
    /\ ecall.pred = FrameB
    /\ result.kind = "frame"
    /\ result.f.w = 4
    /\ result.f.px[1][2] = <<0, 64, 128, 255>>
    /\ result.f.px[1][4] = <<0, 0, 0, 255>>

\* C13 as stated: in NORMAL mode composite(frame_a, frame_b) returns frame_b
\* unchanged for every pair of input frames, including pairs whose
\* dimensions differ and frames that are grayscale or RGB.
C13_NormalReturnsFrameB ==
    CompositeOfImages("NORMAL") => result = RetFrame(ecall.pred)

\* C13 amended: in NORMAL mode composite(frame_a, frame_b) returns frame_b
\* coerced to RGBA and resized to frame_a's height and width; the output
\* is frame_b unchanged exactly when frame_b is RGBA and has frame_a's
\* height and width, and it is the RGBA form of frame_b, pixel for pixel,
\* whenever the two frames have the same height and width.
C13_NormalReturnsSizeMatchedB ==
    CompositeOfImages("NORMAL") =>
        /\ result.kind = "frame"
        /\ result.f.nd = 3 /\ result.f.c = 4
        /\ result.f.h = ecall.gt.h /\ result.f.w = ecall.gt.w
        /\ (result.f = ecall.pred) <=>
               (ecall.pred.nd = 3 /\ ecall.pred.c = 4
                /\ ecall.pred.h = ecall.gt.h /\ ecall.pred.w = ecall.gt.w)
        /\ (ecall.pred.h = ecall.gt.h /\ ecall.pred.w = ecall.gt.w) =>
               result.f = ensure_rgba(ecall.pred)

\* NORMAL was applied to an RGBA frame_b of another size than frame_a and
\* returned an image of frame_a's size
C13_Witness ==
    /\ CompositeOfImages("NORMAL")
    /\ ecall.gt = FrameA
    /\ ecall.pred = FrameTall
    /\ result.kind = "frame"
    /\ result.f # ecall.pred
    /\ Shape(result.f) = Shape(FrameA)

\* C14: in FLICKER mode composite returns frame_a when the phase flag is
\* set and frame_b when it is clear (both in their size-matched RGBA form);
\* toggle_flicker flips the flag and changes nothing else, so a composite()
\* call that repeats an earlier one returns the other operand after an odd
\* number of toggles and the same output after an even number.
C14_FlickerAlternates ==
    /\ [](CompositeOfImages("FLICKER") =>
            LET sm == size_match(ecall.gt, ecall.pred)
            IN  /\ result = RetFrame(IF flicker_state THEN sm.gt ELSE sm.pred)
                /\ (memo.set /\ memo.m = "FLICKER"
                    /\ memo.gt = ecall.gt /\ memo.pred = ecall.pred) =>
                       IF flicker_state = memo.flicker
                       THEN result = memo.out
                       ELSE {result, memo.out} = {RetFrame(sm.gt), RetFrame(sm.pred)})
    /\ [][ecall'.op = "toggle_flicker" =>
             /\ flicker_state' = ~flicker_state
             /\ mode' = mode
             /\ UNCHANGED <<storeVars, laterVars>>]_vars

\* FLICKER was composited, the phase toggled, and the same pair composited
\* again: the two outputs are the two operands, which differ
C14_Witness ==
    /\ CompositeOfImages("FLICKER")
    /\ memo.set /\ memo.m = "FLICKER"
    /\ memo.gt = ecall.gt /\ memo.pred = ecall.pred
    /\ ecall.gt = FrameA /\ ecall.pred = FrameB
    /\ flicker_state /\ ~memo.flicker
    /\ result = RetFrame(FrameA)
    /\ memo.out = RetFrame(FrameB)

(***************************************************************************)
(* Claims about the checkerboard, checked under SpecCheckerboard.          *)
(***************************************************************************)

\* the tile of pixel (y, x), 1-based, shows the predicted frame
OddTile(y, x, size) == (((y - 1) \div size) + ((x - 1) \div size)) % 2 = 1

\* pixel (y, x), 1-based, lies in the dot drawn 2 px in from its own tile's origin
InOwnDot(y, x, size) ==
    LET dot_size == Max(3, size \div 10)
        dy == (y - 1) % size
        dx == (x - 1) % size
    IN  OddTile(y, x, size) /\ 2 <= dy /\ dy < 2 + dot_size /\ 2 <= dx /\ dx < 2 + dot_size

\* pixel (y, x), 1-based, lies in the first `thickness` rows or columns of its tile
OnTileEdge(y, x, size, thickness) ==
    (y - 1) % size < thickness \/ (x - 1) % size < thickness

C15_SequencePairsMinimum ==
    mret.kind = "sequence_metrics" =>
        LET n == Min(Len(mcall.gt_frames), Len(mcall.pred_frames))
        IN  /\ Len(mret.frames) = n
            /\ \A i \in 1..n :
                   /\ mret.frames[i].frame_index = i - 1
                   /\ mret.frames[i] =
                          calculate_frame_metrics(mcall.env, mcall.model, mcall.gt_frames[i],
                                                  mcall.pred_frames[i], i - 1).metrics
            /\ mret.seq.frame_count = n
            /\ n = 0 => (mret.seq = ZeroSequenceMetrics /\ mret.frames = <<>>)

\* lists of 3 and 2 frames were compared: 2 pairs, the first of large
\* frames and the second of small ones
C15_Witness ==
    /\ mret.kind = "sequence_metrics"
    /\ Len(mcall.gt_frames) = 3
    /\ Len(mcall.pred_frames) = 2
    /\ Len(mret.frames) = 2
    /\ mret.seq.frame_count = 2
    /\ mcall.gt_frames[1] = BigRGB /\ mcall.pred_frames[1] = BigRGB
    /\ mcall.gt_frames[2] = SmallRGBA /\ mcall.pred_frames[2] = SmallRGBA
    /\ mret.frames[1].ms_ssim # mret.frames[2].ms_ssim

FloatFields == {"psnr", "ssim", "ms_ssim", "lpips", "mse", "mae"}

\* field k of the averaged record is the arithmetic mean of field k
MeanField(k) ==
    LET n == Len(mcall.metrics_list)
    IN  FracEq(Frac(mret.seq[k].num * n, mret.seq[k].den), FracSum(mcall.metrics_list, k))

\* C16 as stated: average_sequence_metrics of a non-empty list returns, for
\* every field including frame_count, the arithmetic mean of that field;
\* for an empty list it returns the all-zero record.
C16_AverageIsMeanOfEveryField ==
    mret.kind = "average" =>
        IF mcall.metrics_list = <<>> THEN mret.seq = ZeroSequenceMetrics
        ELSE /\ \A k \in FloatFields : MeanField(k)
             /\ mret.seq.frame_count * Len(mcall.metrics_list)
                    = SumOf(mcall.metrics_list, "frame_count")

\* C16 amended: average_sequence_metrics of a non-empty list returns the
\* arithmetic mean of each of psnr, ssim, ms_ssim, lpips, mse and mae, and
\* as frame_count the mean of the frame counts truncated to an integer
\* (30 and 40 give 35, 30 and 41 give 35 too); for an empty list it
\* returns the all-zero record.
C16_AverageTruncatesFrameCount ==
    mret.kind = "average" =>
        IF mcall.metrics_list = <<>> THEN mret.seq = ZeroSequenceMetrics
        ELSE LET n == Len(mcall.metrics_list)
                 total == SumOf(mcall.metrics_list, "frame_count")
             IN  /\ \A k \in FloatFields : MeanField(k)
                 /\ mret.seq.frame_count * n <= total
                 /\ total < (mret.seq.frame_count + 1) * n

\* two records with psnr 30 and 40 and frame counts 2 and 3 were averaged
C16_Witness ==
    /\ mret.kind = "average"
    /\ Len(mcall.metrics_list) = 2
    /\ mcall.metrics_list[1].psnr = Frac(30, 1)
    /\ mcall.metrics_list[2].psnr = Frac(40, 1)
    /\ mcall.metrics_list[1].frame_count = 2
    /\ mcall.metrics_list[2].frame_count = 3
    /\ FracEq(mret.seq.psnr, Frac(35, 1))
    /\ mret.seq.frame_count = 2

\* the record calculate_frame_metrics returns when, besides the failures of
\* the call made, the library computation of metric k raises
WithFailureOf(k) ==
    calculate_frame_metrics([mcall.env EXCEPT !.fails = @ \cup {k}], mcall.model,
                            mcall.gt, mcall.pred, mcall.frame_index).metrics

\* every metric of the record is its library score or its fallback, and a
\* metric whose library computation raised is its fallback
FallbacksApplied ==
    LET r == mret.metrics
        env == mcall.env
    IN  /\ DOMAIN r = {"frame_index"} \cup Metrics
        /\ r.frame_index = mcall.frame_index
        /\ \A k \in Metrics \ {"ms_ssim"} :
               /\ r[k] \in {0, env.scores[k]}
               /\ k \in env.fails => r[k] = 0
        /\ r.lpips # 0 => (mcall.model = "loaded" \/ env.loadable)
        /\ r.ms_ssim \in {r.ssim, env.scores.ms_ssim}
        /\ ("ms_ssim" \in env.fails \/ Min(mcall.gt.h, mcall.gt.w) < MsSsimMinDim)
               => r.ms_ssim = r.ssim

\* C17 as stated: calculate_frame_metrics returns a complete record in
\* which each failed metric is replaced by its fallback (0.0, or the plain
\* SSIM score for MS-SSIM, also used below 160 px), and a failure of one
\* metric does not change the value of any other metric.
C17_FailuresIsolated ==
    mret.kind = "frame_metrics" =>
        /\ FallbacksApplied
        /\ \A k \in Metrics : \A j \in Metrics \ {k} :
               k \notin mcall.env.fails => WithFailureOf(k)[j] = mret.metrics[j]

\* C17 amended: calculate_frame_metrics returns a complete record for any
\* frame pair; each failed metric is replaced by its fallback (0.0 for
\* PSNR, SSIM, LPIPS, MSE, MAE; for MS-SSIM, on failure or below 160 px,
\* whatever calculate_ssim returns); a failure of one metric changes no
\* other metric, except that a failure of SSIM also turns an MS-SSIM that
\* has fallen back to SSIM into 0.0.
C17_FailuresIsolatedButSsim ==
    mret.kind = "frame_metrics" =>
        /\ FallbacksApplied
        /\ \A k \in Metrics : \A j \in Metrics \ {k} :
               (k \notin mcall.env.fails /\ <<k, j>> # <<"ssim", "ms_ssim">>)
                   => WithFailureOf(k)[j] = mret.metrics[j]
        /\ WithFailureOf("ssim").ms_ssim \in {mret.metrics.ms_ssim, 0}
        /\ WithFailureOf("ssim").ms_ssim # mret.metrics.ms_ssim
               => mret.metrics.ms_ssim = mret.metrics.ssim

\* PSNR failed on a pair of large frames: it is 0 and every other metric
\* is its library score
C17_Witness ==
    /\ mret.kind = "frame_metrics"
    /\ mcall.env.fails = {"psnr"}
    /\ mcall.env.loadable
    /\ mcall.gt = BigRGB /\ mcall.pred = BigRGB
    /\ mret.metrics.psnr = 0
    /\ \A k \in Metrics \ {"psnr"} : mret.metrics[k] = mcall.env.scores[k]

(***************************************************************************)
(* Claims about the application's handlers, checked under SpecApp.         *)
(***************************************************************************)

\* C18: the LPIPS network follows the lifecycle uninitialized -> loaded on
\* first use -> cached for the process lifetime: over any sequence of
\* single-pair metrics runs and multi-file averaging runs the network is
\* built at most once.
C18_NetworkBuiltAtMostOnce == loads <= 1

\* a batch operation is between two iterations of its loop
InLoop == batch.op \in {"export", "average"} /\ batch.i < batch.n

\* C19: in both batch operations the cancel flag is checked once per
\* iteration, before that iteration's work; once cancellation is observed
\* the operation returns with no partial output: the export writes no file
\* and the averaging run leaves the displayed sequence metrics unchanged.
\* A file is written only after every frame was produced, and an averaging
\* run changes the displayed metrics only after its last iteration.
C19_CancelCheckedBeforeWork ==
    /\ [][InLoop =>
             IF batch.canceled
             THEN /\ batch' = Idle(batch.op, "canceled", batch.i, Len(batch.acc))
                  /\ UNCHANGED <<written, shown, loads, lpips_model>>
             ELSE /\ batch'.op = batch.op
                  /\ batch'.i = batch.i + 1]_vars
    /\ [][written' # written =>
             /\ batch.op = "export"
             /\ batch.i = batch.n
             /\ Len(batch.acc) = batch.n
             /\ written' = [exists |-> TRUE, frames |-> batch.acc,
                             durations |-> batch.durations]]_vars
    /\ [][(batch.op = "average" /\ shown' # shown) =>
             (batch.i = batch.n /\ batch'.outcome = "finished")]_vars

\* an averaging run was cancelled after it had computed the metrics of a
\* file, and nothing is displayed
C19_Witness ==
    /\ batch.op = "idle"
    /\ batch.last = "average"
    /\ batch.outcome = "canceled"
    /\ batch.i >= 1
    /\ batch.collected >= 1
    /\ shown = NoShown

(***************************************************************************)
(* Claims about the grid overlay, checked under SpecGrid.                  *)
(***************************************************************************)

\* C20: GridOverlay.apply with enabled = False returns an image
\* pixel-identical to its input for every input frame and every setting of
\* size, colour, opacity and thickness.
C20_DisabledGridIsIdentity ==
    (gcall.op = "apply" /\ ~grid.enabled) => gret = RetFrame(gcall.frame)

\* apply ran disabled on a frame that the same settings would change when
\* enabled
C20_Witness ==
    /\ gcall.op = "apply"
    /\ ~grid.enabled
    /\ grid.size = 4 /\ grid.thickness = 2 /\ grid.opacity = 4
    /\ grid.color = <<255, 0, 0>>
    /\ gcall.frame = FrameWide
    /\ gret = RetFrame(FrameWide)
    /\ apply([grid EXCEPT !.enabled = TRUE], FrameWide) # RetFrame(FrameWide)

\* pixel (y, x), 1-based, of a frame of h rows and w columns lies on a grid
\* line of g
OnGrid(g, y, x, h, w) ==
    LinesOver(x - 1, g.size, g.thickness, w) + LinesOver(y - 1, g.size, g.thickness, h) > 0

\* C21: GridOverlay.apply with enabled = True leaves the alpha channel and
\* every pixel off the grid lines unchanged, and sets each colour channel of
\* every pixel on a vertical or horizontal line, crossings included, to
\* existing * (1 - opacity) + grid_colour * opacity of the input pixel.
C21_EnabledGridInterpolatesInput ==
    (gcall.op = "apply" /\ grid.enabled /\ gret.kind = "frame") =>
        LET f == gcall.frame
            r == gret.f
        IN  /\ Shape(r) = Shape(f)
            /\ \A y \in 1..f.h, x \in 1..f.w, k \in 1..f.c :
                    r.px[y][x][k] =
                        IF k <= 3 /\ OnGrid(grid, y, x, f.h, f.w)
                        THEN BlendTimes(f.px[y][x][k], 1, grid.color[k], grid.opacity, 1)
                        ELSE f.px[y][x][k]

(***************************************************************************)
(* Claims about the main window's display, checked under SpecView.         *)
(***************************************************************************)

\* C23: the flicker timer runs exactly when the engine's mode is FLICKER;
\* the flicker phase changes only on a tick of that timer, so never in
\* another mode; and a tick flips the phase and refreshes the display with
\* the new phase.
C23_TimerRunsExactlyInFlicker ==
    /\ [](flicker_timer <=> mode = "FLICKER")
    /\ [][mode # "FLICKER" => flicker_state' = flicker_state]_vars
    /\ [][flicker_state' # flicker_state =>
             /\ flicker_timer
             /\ mode' = "FLICKER"
             /\ flicker_state' = ~flicker_state
             /\ ui' = update_display(ui, World(gt_handler, pred_handler, mode,
                                               flicker_state'))]_vars

\* in FLICKER mode a tick has put the predicted frame on display
C23_Witness ==
    /\ mode = "FLICKER"
    /\ flicker_timer
    /\ flicker_state
    /\ ui.found
    /\ ui.viewport = Overlay("composite", ui.current_frame, "FLICKER", TRUE)

\* C26: after any sequence of file loads (successful or failing), frame
\* deletions, frame insertions and frame-change events, whenever one of
\* the two stores is non-empty the current frame index is below
\* max(ground-truth count, predicted count), so that a display refresh
\* finds a frame at the current index.
C26_CurrentFrameInRange ==
    (gt_handler # <<>> \/ pred_handler # <<>>) =>
        /\ ui.current_frame < Max(Len(gt_handler), Len(pred_handler))
        /\ update_display(ui, Now).found

(***************************************************************************)
(* Claims about the overlay export, checked under SpecExport.              *)
(***************************************************************************)

\* the composited frames of a list of exported frames share one mode and
\* one flicker phase
OnePhase(fs) ==
    \A i \in 1..Len(fs), j \in 1..Len(fs) :
        (fs[i].kind = "composite" /\ fs[j].kind = "composite") =>
            (fs[i].mode = fs[j].mode /\ fs[i].flicker = fs[j].flicker)

\* C25: during one overlay export every frame is composited under the same
\* overlay mode and the same flicker phase: nothing that processEvents
\* handles between two iterations changes the engine's state.
C25_ExportUnderOnePhase ==
    /\ (batch.op = "export" => OnePhase(batch.acc))
    /\ (written.exists => OnePhase(written.frames))

\* the durations of an export are, frame by frame, the ground-truth
\* store's where it has the frame, else the predicted store's, else 100
StatedDurations(ds) ==
    \A k \in 1..Len(ds) :
        ds[k] = IF k <= Len(gt_handler) THEN gt_durations[k]
                ELSE IF k <= Len(pred_handler) THEN pred_durations[k]
                ELSE 100

\* C27: in an overlay export of max(gt count, pred count) frames the
\* duration written for frame i is the ground-truth store's when that store
\* has a frame i, otherwise the predicted store's, and 100 ms only when
\* neither store has one; the exported frame and duration lists have the
\* same length.
C27_ExportDurations ==
    /\ (batch.op = "export" =>
            (Len(batch.durations) = Len(batch.acc) /\ StatedDurations(batch.durations)))
    /\ (written.exists =>
            /\ Len(written.frames) = Max(Len(gt_handler), Len(pred_handler))
            /\ Len(written.durations) = Len(written.frames)
            /\ StatedDurations(written.durations))

(***************************************************************************)
(* Claims about the metrics tab, checked under SpecApp.                    *)
(***************************************************************************)

\* the aggregate is the one calculate_sequence_metrics derives from the
\* per-frame list: its frame_count is the number of records and each field
\* is the mean of that field over the records
AggregateOf(seq, frame_metrics) ==
    /\ seq.frame_count = Len(frame_metrics)
    /\ \A k \in FloatFields :
           FracEq(seq[k], IF frame_metrics = <<>> THEN Frac(0, 1)
                          ELSE MeanOf(frame_metrics, k))

\* C28: after any sequence of single-pair metric calculations and
\* multi-file averaging runs, the sequence aggregate and the per-frame list
\* held by the metrics tab belong to the same calculation: the aggregate's
\* frame_count is the number of per-frame records and each aggregate field
\* is the mean of that field over those records.
C28_AggregateMatchesFrameList ==
    shown.has_seq => AggregateOf(shown.seq, shown.frames)

(***************************************************************************)
(* Claims about the mode panel, checked under SpecPanel.                   *)
(***************************************************************************)

\* C29: every member of OverlayMode (NORMAL, DUAL_COLOR, DIFFERENCE,
\* SSIM_MAP, BLEND, FLICKER, CHECKERBOARD, SIDE_BY_SIDE) becomes the
\* engine's active mode in a session that keeps clicking every button of
\* the mode panel, and after every selection the engine's mode is the mode
\* selected in the panel.
C29_EveryModeSelectable ==
    /\ \A m \in OverlayModes : <>(mode = m)
    /\ [](mode = ModeOfButton(ui.panel))

(***************************************************************************)
(* Claims about the marker dots, checked under SpecCheckerboard.           *)
(***************************************************************************)

\* C30: in CHECKERBOARD mode, for every checker size and every frame size,
\* the marker dot drawn for an odd tile overwrites only pixels inside that
\* same tile: every magenta pixel of the result lies in an odd tile, 2 px
\* or more in from that tile's origin, and so on no even tile and on no
\* tile's grid line (no input pixel is magenta).
C30_DotInsideItsTile ==
    (cb.done /\ cb.out.kind = "frame") =>
        \A y \in 1..cb.gt.h, x \in 1..cb.gt.w :
            cb.out.f.px[y][x] = magenta => InOwnDot(y, x, cb.size)

====
